---- MODULE Spec2Model ----
(***************************************************************************)
(* A model of pdb++ (src/src/pdbpp.py): the session singleton manager      *)
(* (PdbMeta.__call__), the hidden-frame visibility filter and frame        *)
(* navigation (Pdb.compute_stack, do_up/do_down/do_frame), the command     *)
(* line disambiguator (Pdb.parseline) and the completion merger            *)
(* (Pdb.complete).                                                         *)
(*                                                                         *)
(* The specifications share the variables of the module:                   *)
(*   Spec          the singleton manager, one thread of control            *)
(*   SpecStack     one session's stack, visibility mode and navigation     *)
(*   SpecScenario  SpecStack started on the stack [A, B, C] of the spec    *)
(*   SpecParse     parseline applied to bounded input lines                *)
(*   SpecComplete  completion requests of one prompt                       *)
(*   SpecMerge     the first completion request, over all candidate lists  *)
(*   SpecList      one long listing (Pdb._cut_lines), over bounded sources  *)
(*   SpecDisplay   the display list of a frame across stops of the program  *)
(*   SpecReentry   set_trace and reset called during and between completion *)
(*                 requests                                                *)
(*   SpecSticky    the clear-screen flags of sticky mode across renders     *)
(*   SpecReuse     requests that return the global session, between its     *)
(*                 set_trace and step calls                                 *)
(*   SpecDebug     the global slot across recursive debug commands          *)
(* Each specification holds the variables of the other parts fixed.        *)
(***************************************************************************)
EXTENDS Integers, Sequences, FiniteSets, TLC

(***************************************************************************)
(* Bounds of the model.                                                    *)
(***************************************************************************)
\* session constructions (obj.__init__ calls) in progress at once
MaxDepth == 1
\* frames of a full stack
MaxFrames == 2
\* pieces of an input line
MaxParts == 3
\* candidates one completer offers for a text
MaxCands == 2
\* completion requests with state 0 made in a row for one text
MaxAttempts == 4
\* lines of a source that is listed
MaxLines == 10
\* objects of the debugged program that display expressions evaluate to
MaxObjects == 2
\* messages waiting in the sticky queue
MaxQueue == 2
\* debug commands in progress at once, one inside the other
MaxDebug == 2

VARIABLES
    \* ---- singleton manager (thread-local `local` and os.environ) ----
    GLOBAL_PDB,     \* local.GLOBAL_PDB: None or the global session object
    in_init,        \* local._pdbpp_in_init, the recursion guard
    HOME,           \* os.environ["HOME"]
    REUSE,          \* os.environ.get("PDBPP_REUSE_GLOBAL_PDB", "1")
    callstack,      \* the running obj.__init__ calls of the thread, outermost first
    lastCall,       \* observation: how the latest construction request ended
    \* ---- one session's stack and navigation ----
    bdb_stack,      \* the frames bdb.Bdb.get_stack(f, t) returns, oldest first
    bdb_idx,        \* the index bdb.Bdb.get_stack(f, t) returns
    enable_hidden_frames,   \* self.config.enable_hidden_frames
    _via_set_trace_frame,   \* id of the frame set_trace was called from, 0 if unset
    show_hidden_frames,     \* self.show_hidden_frames
    fullstack,      \* self.fullstack
    stack,          \* self.stack, the visible stack
    _hidden_frames, \* self._hidden_frames
    curindex,       \* self.curindex
    curframe,       \* id of self.curframe, 0 before setup
    pc,             \* "entry" before setup, "prompt" in the command loop, "raised"
    \* ---- the command line ----
    rawline,        \* the input line handed to parseline
    f_globals,      \* the names in self.curframe.f_globals
    curframe_locals,    \* the names in self.curframe_locals
    token,          \* what parseline returned
    caller,         \* the method that called parseline, "" before the call
    \* ---- completion ----
    _completions,   \* self._completions, the cached candidate list
    _lastcompstate, \* self._lastcompstate: the last text and the escalation counter
    _pdbpp_completing,  \* local._pdbpp_completing
    use_colors,     \* self.fancycompleter.config.use_colors
    fancy_matches,  \* what Completer(mydict).complete offers, in its order
    pdb_matches,    \* what pdb.Pdb.complete offers, in its order
    lastComplete,   \* observation: the latest request and what it returned
    attempts,       \* observation: requests with state 0 answered in a row for
                    \* the text of _lastcompstate
    \* ---- the long listing ----
    lines,          \* the source lines handed to _print_lines_pdbpp
    lineno,         \* the number of the first of them
    f_lineno,       \* self.curframe.f_lineno
    exc_lineno,     \* self.tb_lineno.get(self.curframe): 0 stands for None
    max_lines,      \* the line budget: 0 stands for None, False and 0
    new_lines,      \* observation: what the listing printed, or the exception
    \* ---- the display list ----
    heap,           \* the value of each object of the debugged program
    bindings,       \* what each expression evaluates to in self.curframe
    display_list,   \* self.display_list[self.curframe], in insertion order
    displayed,      \* observation: what the latest command or preloop printed
    loc,            \* "prompt" in the command loop, "running", "raised"
    \* ---- set_trace ----
    disabled,       \* self.disabled
    start_filename, \* self.start_filename: "" stands for None
    start_lineno,   \* self.start_lineno: 0 stands for None
    _stopped_for_set_trace, \* self._stopped_for_set_trace
    tracing,        \* bdb.Bdb.set_trace has installed self.trace_dispatch
    py314,          \* sys.version_info >= (3, 14)
    called,         \* observation: the latest call on the session and how it ended
    \* ---- sticky mode ----
    sticky,         \* self.sticky
    commands_defining,  \* self.commands_defining
    _sticky_need_cls,   \* self._sticky_need_cls
    _sticky_skip_cls,   \* self._sticky_skip_cls
    rendered,       \* observation: the latest handler and what it wrote
    _sticky_messages,   \* self._sticky_messages
    has_return,     \* "__return__" or "__exception__" is in curframe.f_locals
    shown_messages, \* observation: the messages the latest handler wrote, in
                    \* the order written
    \* ---- the streams and the stepping of the session ----
    stdout,         \* self.stdout: the stream and whether a UTF-8 writer wraps it
    sys_stdout,     \* sys.stdout
    open_streams,   \* the streams the program has opened to hand to the debugger
    botframe,       \* hasattr(self, "botframe")
    _set_trace_use_next,    \* hasattr(self, "_set_trace_use_next")
    stepped,        \* observation: what the latest set_step set the session to,
                    \* "step" or "next"; "" before the first
    \* ---- the recursive debugger ----
    debug_stack,    \* the do_debug calls in progress, outermost first: their
                    \* locals prev_pdb and orig_trace
    debugged        \* observation: where the latest do_debug is: "entered",
                    \* "returned" or "raised"; "none" before the first

ctorVars == <<GLOBAL_PDB, in_init, HOME, REUSE, callstack, lastCall>>

stackVars == <<bdb_stack, bdb_idx, enable_hidden_frames, _via_set_trace_frame,
               show_hidden_frames, fullstack, stack, _hidden_frames, curindex,
               curframe, pc>>

parseVars == <<rawline, f_globals, curframe_locals, token, caller>>

completeVars == <<_completions, _lastcompstate, _pdbpp_completing, use_colors,
                  fancy_matches, pdb_matches, lastComplete, attempts>>

listVars == <<lines, lineno, f_lineno, exc_lineno, max_lines, new_lines>>

displayVars == <<heap, bindings, display_list, displayed, loc>>

traceVars == <<disabled, start_filename, start_lineno, _stopped_for_set_trace,
               tracing, py314, called>>

stickyVars == <<sticky, commands_defining, _sticky_need_cls, _sticky_skip_cls,
                rendered, _sticky_messages, has_return, shown_messages>>

reuseVars == <<stdout, sys_stdout, open_streams, botframe, _set_trace_use_next,
               stepped>>

debugVars == <<debug_stack, debugged>>

viewVars == <<listVars, displayVars, debugVars, traceVars, stickyVars, reuseVars>>

nonCtorVars == <<stackVars, parseVars, completeVars, viewVars>>
nonStackVars == <<ctorVars, parseVars, completeVars, viewVars>>
nonParseVars == <<ctorVars, stackVars, completeVars, viewVars>>
nonCompleteVars == <<ctorVars, stackVars, parseVars, viewVars>>
nonViewVars == <<ctorVars, stackVars, parseVars, completeVars>>

nonListVars == <<displayVars, debugVars, traceVars, stickyVars, reuseVars, nonViewVars>>
nonDisplayVars == <<listVars, traceVars, stickyVars, reuseVars, debugVars,
                   nonViewVars>>
nonTraceViews == <<listVars, displayVars, debugVars, stickyVars, reuseVars>>
nonStickyVars == <<listVars, displayVars, debugVars, traceVars, reuseVars, nonViewVars>>

vars == <<ctorVars, stackVars, parseVars, completeVars, viewVars>>

(***************************************************************************)
(* Part 1.  Session singleton manager: PdbMeta.__call__                    *)
(*                                                                         *)
(* A session object is the record of the attributes PdbMeta.__call__       *)
(* reads.  Only two kinds of session are held in the state: the one in the *)
(* global slot and those whose __init__ is running; the attributes of any  *)
(* other session are never read by the manager.                            *)
(***************************************************************************)
Classes == {"Pdb", "PdbSub"}
Homes == {"/home/a", "/home/b"}
\* a keyword argument is absent, or given as True or False
Kw == {"absent", "True", "False"}

\* An enhanced session object of class C, as cls.__new__(cls) leaves it.
Session(C) ==
    [ cls |-> C,
      _env |-> "unset",                       \* no _env attribute yet
      _force_use_as_global_pdb |-> FALSE,     \* hasattr(obj, "_force_use_as_global_pdb")
      _use_global_pdb_for_class |-> "unset",
      _in_interaction |-> FALSE ]

\* Python's None in the global slot.
None == Session("NoneType")

\* The Python frames above the construction request, innermost first: the code
\* name of each frame and whether its code refers to the names "breakpoint" or
\* "set_trace" (co_names + co_varnames).
Frame(n, m) == [co_name |-> n, mentions |-> m]
CallChains ==
    { <<Frame("set_trace", FALSE), Frame("fn", TRUE)>>,   \* fn: pdb.set_trace()
      <<Frame("fn", TRUE)>>,                              \* fn: Pdb() directly
      <<Frame("set_trace", FALSE), Frame("fn", FALSE)>> } \* caller names neither

Args == [cls : Classes, use_global_pdb : Kw, set_global_pdb : Kw, chain : CallChains]

\* PdbMeta.called_for_set_trace: the first frame named set_trace that has a
\* caller whose code mentions breakpoint/set_trace; 0 (False) when there is none.
called_for_set_trace(chain) ==
    LET hits == { i \in 1..Len(chain) :
                    /\ chain[i].co_name = "set_trace"
                    /\ i < Len(chain)
                    /\ chain[i + 1].mentions }
    IN IF hits = {} THEN 0
       ELSE CHOOSE i \in hits : \A j \in hits : i <= j

\* C.__qualname__
qualname(C) == C

\* PdbMeta.use_global_pdb_for_class(obj, C)
use_global_pdb_for_class(obj, C) ==
    IF obj._env # "unset" /\ obj._env # HOME THEN FALSE
    ELSE IF obj.cls = C THEN TRUE
    ELSE IF obj._use_global_pdb_for_class = C THEN TRUE
    ELSE qualname(C) = qualname(obj.cls)

\* variant: the default ignores _in_interaction
use_global_pdb_default_any_time ==
    IF GLOBAL_PDB # None THEN REUSE = "1" ELSE TRUE

\* The default of the use_global_pdb keyword (lines 246-255).
use_global_pdb_default ==
    IF GLOBAL_PDB # None
    THEN ~GLOBAL_PDB._in_interaction /\ REUSE = "1"
    ELSE TRUE

\* variant: the keyword is ignored, the default always taken
use_global_pdb_env_only(a) == use_global_pdb_default

\* kwargs.pop("use_global_pdb", <default>)
use_global_pdb(a) ==
    IF a.use_global_pdb = "absent" THEN use_global_pdb_default
    ELSE a.use_global_pdb = "True"

\* The condition of lines 259-267: return the global session.
reuses_global(a) ==
    /\ use_global_pdb(a)
    /\ GLOBAL_PDB # None
    /\ called_for_set_trace(a.chain) # 0
    /\ \/ GLOBAL_PDB._force_use_as_global_pdb
       \/ use_global_pdb_for_class(GLOBAL_PDB, a.cls)

\* variant: every new session is registered
set_global_pdb_always(a) == TRUE

\* Lines 288-293: the resolved set_global_pdb of a new session.
set_global_pdb(a) ==
    IF a.set_global_pdb # "absent" THEN a.set_global_pdb = "True"
    ELSE use_global_pdb(a)

\* Lines 283-291: obj = cls.__new__(cls), and _force_use_as_global_pdb when
\* set_global_pdb is given and true.
NewSession(a) ==
    [Session(a.cls) EXCEPT !._force_use_as_global_pdb = (a.set_global_pdb = "True")]

\* pdb.Pdb.__init__ of the plain debugger is handed every keyword but Config
\* (lines 239-240): the pdb++-only keywords make it raise TypeError.
plain_init_raises(a) ==
    a.use_global_pdb # "absent" \/ a.set_global_pdb # "absent"

\* The path a request takes through PdbMeta.__call__: the guarded one (lines
\* 222-242), the return of the global session (259-281) or a new object (283-299).
branch(a) ==
    IF in_init THEN "guarded"
    ELSE IF reuses_global(a) THEN "reuse"
    ELSE "new"

GlobalBusy == GLOBAL_PDB # None /\ GLOBAL_PDB._in_interaction

\* What the caller of the latest construction request got:
\*   ret        "init" while the new object's __init__ runs, then "new" or
\*              "raised"; "reused", "plain" or "raised" for the other paths
\*   is_global  the object it got is the one the global slot holds
\*   again      the object it got is the one the request before returned
\*   busy       the global session was inside interaction() when it arrived
\*   kw         the use_global_pdb keyword the request was given
Observed(ret, is_global, again, busy, kw) ==
    [ret |-> ret, is_global |-> is_global, again |-> again, busy |-> busy, kw |-> kw]

\* A running obj.__init__: the object and the resolved set_global_pdb.
InitFrame(obj, a) == [obj |-> obj, set_global_pdb |-> set_global_pdb(a)]

\* Lines 222-242: the guard is set, a plain pdb.Pdb is built and the guard cleared.
CallGuarded(a) ==
    /\ branch(a) = "guarded"
    /\ IF plain_init_raises(a)
       THEN /\ lastCall' = Observed("raised", FALSE, FALSE, GlobalBusy, a.use_global_pdb)
            /\ in_init' = in_init
       ELSE /\ lastCall' = Observed("plain", FALSE, FALSE, GlobalBusy, a.use_global_pdb)
            /\ in_init' = FALSE
    /\ UNCHANGED <<GLOBAL_PDB, HOME, REUSE, callstack, nonCtorVars>>

\* The streams of the program: a terminal that takes UTF-8 and a file opened
\* with another encoding.
Streams == {"tty", "latin1"}

\* f.encoding.lower()
encoding(f) == IF f = "tty" THEN "utf-8" ELSE "latin-1"

\* Lines 389-398: a stream with another encoding than UTF-8 is wrapped in a
\* UTF-8 writer on its buffer.
ensure_file_can_write_unicode(f) ==
    [stream |-> f, writer |-> encoding(f) # "utf-8"]

\* kwargs.get("stdout", sys.stdout), line 277; the keyword is absent or one
\* of the streams.
stdout_of(out) == IF out = "absent" THEN sys_stdout ELSE out

\* the stdout keyword a caller can pass
Supplied == {"absent"} \cup open_streams

\* Lines 243-281: the global session is returned.  A session that has a
\* botframe has the trace function removed, is set to continue (set_continue,
\* lines 525-528, sets the skip flag in sticky mode) and is marked; its
\* stdout is bound to the stream of the request.
CallReuseWith(a, out) ==
    /\ branch(a) = "reuse"
    /\ lastCall' = Observed("reused", TRUE,
                            lastCall.ret \in {"new", "reused"} /\ lastCall.is_global,
                            GlobalBusy, a.use_global_pdb)
    /\ in_init' = FALSE
    /\ IF botframe
       THEN /\ tracing' = FALSE
            /\ _sticky_skip_cls' = (sticky \/ _sticky_skip_cls)
            /\ _set_trace_use_next' = TRUE
       ELSE UNCHANGED <<tracing, _sticky_skip_cls, _set_trace_use_next>>
    /\ stdout' = ensure_file_can_write_unicode(stdout_of(out))
    /\ UNCHANGED <<GLOBAL_PDB, HOME, REUSE, callstack, stackVars, parseVars,
                   completeVars, listVars, displayVars, debugVars, disabled, start_filename,
                   start_lineno, _stopped_for_set_trace, py314, called, sticky,
                   commands_defining, _sticky_need_cls, rendered,
                   _sticky_messages, has_return, shown_messages, sys_stdout,
                   open_streams, botframe, stepped>>

CallReuse(a) == \E out \in Supplied : CallReuseWith(a, out)

\* Lines 243-294: a new session object is allocated and its __init__ entered.
CallNew(a) ==
    /\ branch(a) = "new"
    /\ Len(callstack) < MaxDepth
    /\ in_init' = TRUE
    /\ callstack' = Append(callstack, InitFrame(NewSession(a), a))
    /\ lastCall' = Observed("init", FALSE, FALSE, GlobalBusy, a.use_global_pdb)
    /\ UNCHANGED <<GLOBAL_PDB, HOME, REUSE, nonCtorVars>>

\* PdbMeta.__call__(cls, *args, **kwargs) up to its first return, raise or
\* entry into obj.__init__.
Call(a) == CallGuarded(a) \/ CallReuse(a) \/ CallNew(a)

Top == callstack[Len(callstack)]
Pop == SubSeq(callstack, 1, Len(callstack) - 1)

\* Lines 294-299: obj.__init__ returned.  The attributes followed are those
\* of the session in the global slot: a session that takes the slot has no
\* botframe and no mark, and the stdout its __init__ bound (line 371).
InitReturn ==
    /\ callstack # <<>>
    /\ GLOBAL_PDB' = IF Top.set_global_pdb
                     THEN [Top.obj EXCEPT !._env = HOME]
                     ELSE GLOBAL_PDB
    /\ in_init' = FALSE
    /\ callstack' = Pop
    /\ lastCall' = [lastCall EXCEPT !.ret = "new", !.is_global = Top.set_global_pdb]
    /\ IF Top.set_global_pdb
       THEN /\ botframe' = FALSE
            /\ _set_trace_use_next' = FALSE
            /\ stdout' = ensure_file_can_write_unicode(sys_stdout)
       ELSE UNCHANGED <<botframe, _set_trace_use_next, stdout>>
    /\ UNCHANGED <<HOME, REUSE, stackVars, parseVars, completeVars, listVars,
                   displayVars, debugVars, traceVars, stickyVars, sys_stdout, open_streams,
                   stepped>>

\* Line 294: obj.__init__ raised; nothing after it runs.
InitRaise ==
    /\ callstack # <<>>
    /\ callstack' = Pop
    /\ lastCall' = [lastCall EXCEPT !.ret = "raised"]
    /\ UNCHANGED <<GLOBAL_PDB, in_init, HOME, REUSE, nonCtorVars>>

\* Pdb.interaction of the global session, lines 436-449: up to _interaction.
EnterInteraction ==
    /\ GLOBAL_PDB # None
    /\ GLOBAL_PDB' = [GLOBAL_PDB EXCEPT !._in_interaction = TRUE]
    /\ UNCHANGED <<in_init, HOME, REUSE, callstack, lastCall, nonCtorVars>>

\* Pdb.interaction of the global session, lines 450-451: the finally clause.
ExitInteraction ==
    /\ GlobalBusy
    /\ GLOBAL_PDB' = [GLOBAL_PDB EXCEPT !._in_interaction = FALSE]
    /\ UNCHANGED <<in_init, HOME, REUSE, callstack, lastCall, nonCtorVars>>

\* os.environ["HOME"] = h
SetHome(h) ==
    /\ h # HOME
    /\ HOME' = h
    /\ UNCHANGED <<GLOBAL_PDB, in_init, REUSE, callstack, lastCall, nonCtorVars>>

\* os.environ["PDBPP_REUSE_GLOBAL_PDB"] = v
SetReuse(v) ==
    /\ v # REUSE
    /\ REUSE' = v
    /\ UNCHANGED <<GLOBAL_PDB, in_init, HOME, callstack, lastCall, nonCtorVars>>

\* cleanup(): the slot is emptied, so the caller's object is no longer in it.
cleanup ==
    /\ GLOBAL_PDB # None
    /\ GLOBAL_PDB' = None
    /\ lastCall' = [lastCall EXCEPT !.is_global = FALSE]
    /\ UNCHANGED <<in_init, HOME, REUSE, callstack, nonCtorVars>>

(***************************************************************************)
(* The values the variables of the other parts keep while one part runs.   *)
(***************************************************************************)
\* None where a str is expected; no str has an element of several characters
NoneStr == <<"None">>

\* The tuple parseline returns: (cmd, arg, line).  count is <<n>> when arg is
\* an ArgWithCount with cmd_count n and <<>> when it is a plain str or None;
\* exc names the exception when parseline raised instead of returning.
Token(cmd, arg, line) == [cmd |-> cmd, arg |-> arg, line |-> line, count |-> <<>>, exc |-> ""]
Raised(e) == [Token(NoneStr, NoneStr, NoneStr) EXCEPT !.exc = e]

\* self._completions before the first request with state 0: the attribute
\* does not exist
NoAttribute == << <<"AttributeError">> >>

\* What the caller of the latest completion request observed: the text and
\* state it asked for, the candidate returned (None for none), the completer
\* that raised ("" when none did) and whether an error message was written to
\* self.stdout.
Completed(text, state, ret, raised, reported) ==
    [text |-> text, state |-> state, ret |-> ret, raised |-> raised,
     reported |-> reported]

\* no completion has been requested
NoComplete ==
    /\ _completions = NoAttribute
    /\ _lastcompstate = [text |-> NoneStr, n |-> 0]
    /\ _pdbpp_completing = FALSE
    /\ use_colors = FALSE
    /\ fancy_matches = <<>>
    /\ pdb_matches = <<>>
    /\ lastComplete = Completed(NoneStr, 0, NoneStr, "", FALSE)
    /\ attempts = 0

\* What a listing printed: the entries of new_lines in order, or the exception
\* that ended _print_lines_pdbpp before its print ("" when none did).
Printed(out, raised) == [out |-> out, raised |-> raised]

\* nothing has been listed
NoList ==
    /\ lines = <<>>
    /\ lineno = 1
    /\ f_lineno = 1
    /\ exc_lineno = 0
    /\ max_lines = 0
    /\ new_lines = Printed(<<>>, "idle")

\* no expression is displayed
NoDisplay ==
    /\ heap = <<>>
    /\ bindings = <<>>
    /\ display_list = <<>>
    /\ displayed = <<>>
    /\ loc = "idle"

\* What the caller of the latest call on the session observed.
Called(op, outcome) == [op |-> op, outcome |-> outcome]

\* set_trace has not been called
NoTrace ==
    /\ disabled = FALSE
    /\ start_filename = ""
    /\ start_lineno = 0
    /\ _stopped_for_set_trace = FALSE
    /\ tracing = FALSE
    /\ py314 = FALSE
    /\ called = Called("none", "")

\* What the latest handler of the sticky part did: whether it rendered the
\* sticky view (_print_if_sticky with sticky mode on), the two flags as
\* _sticky_handle_cls found them and self._sticky_need_cls as it left it,
\* what was written, and whether the render ran to its end.
Rendered(op, render, skip, need, need_after, wrote, completed) ==
    [op |-> op, render |-> render, skip_before |-> skip, need_before |-> need,
     need_after_cls |-> need_after, wrote |-> wrote, completed |-> completed]

NotRendered(op) == Rendered(op, FALSE, FALSE, FALSE, FALSE, <<>>, FALSE)

\* sticky mode is off and owes nothing
NoSticky ==
    /\ sticky = FALSE
    /\ commands_defining = FALSE
    /\ _sticky_need_cls = FALSE
    /\ _sticky_skip_cls = FALSE
    /\ rendered = NotRendered("none")
    /\ _sticky_messages = <<>>
    /\ has_return = FALSE
    /\ shown_messages = <<>>

\* a session that has not traced, writing to the terminal
NoReuse ==
    /\ stdout = [stream |-> "tty", writer |-> FALSE]
    /\ sys_stdout = "tty"
    /\ open_streams = {}
    /\ botframe = FALSE
    /\ _set_trace_use_next = FALSE
    /\ stepped = ""

\* no debug command is in progress
NoDebug ==
    /\ debug_stack = <<>>
    /\ debugged = "none"

\* no listing, display or sticky rendering is under way
NoView == NoList /\ NoDisplay /\ NoTrace /\ NoSticky /\ NoReuse /\ NoDebug

\* no line is being parsed
NoParse ==
    /\ rawline = <<>>
    /\ f_globals = {}
    /\ curframe_locals = {}
    /\ token = Token(NoneStr, NoneStr, <<>>)
    /\ caller = "idle"

\* no session is stopped: the stack variables keep their values of Pdb.__init__
StackIdle ==
    /\ bdb_stack = <<>>
    /\ bdb_idx = 0
    /\ enable_hidden_frames = TRUE
    /\ _via_set_trace_frame = 0
    /\ show_hidden_frames = FALSE
    /\ fullstack = <<>>
    /\ stack = <<>>
    /\ _hidden_frames = <<>>
    /\ curindex = 0
    /\ curframe = 0
    /\ pc = "idle"

NoStack ==
    /\ StackIdle
    /\ NoParse
    /\ NoComplete
    /\ NoView

Init ==
    /\ GLOBAL_PDB = None
    /\ in_init = FALSE
    /\ HOME \in Homes
    /\ REUSE = "1"
    /\ callstack = <<>>
    /\ lastCall = Observed("none", FALSE, FALSE, FALSE, "absent")
    /\ NoStack

Next ==
    \/ \E a \in Args : Call(a)
    \/ InitReturn
    \/ InitRaise
    \/ EnterInteraction
    \/ ExitInteraction
    \/ \E h \in Homes : SetHome(h)
    \/ \E v \in {"0", "1"} : SetReuse(v)
    \/ cleanup

Spec == Init /\ [][Next]_vars

(***************************************************************************)
(* Properties of the singleton manager.                                    *)
(*                                                                         *)
(* PdbMeta.__call__ decides from the state it finds and from its arguments *)
(* alone, so a property of every request is stated over every reachable    *)
(* state and every argument record: branch(a) is the path Call(a) takes.   *)
(***************************************************************************)
ViaSetTrace == <<Frame("set_trace", FALSE), Frame("fn", TRUE)>>

\* reuse enabled / disabled for a request: by the keyword, else by the environment
ReuseEnabled(a) ==
    a.use_global_pdb = "True" \/ (a.use_global_pdb = "absent" /\ REUSE = "1")
ReuseDisabled(a) ==
    a.use_global_pdb = "False" \/ (a.use_global_pdb = "absent" /\ REUSE # "1")

\* The request a would be the second of two sequential calls from one identity:
\* the call before returned the session that is registered in the global slot,
\* that session is idle, of the class asked for, and registered under the
\* current HOME.
SecondOfTwo(a) ==
    /\ lastCall.ret \in {"new", "reused"}
    /\ lastCall.is_global
    /\ ~GLOBAL_PDB._in_interaction
    /\ GLOBAL_PDB.cls = a.cls
    /\ GLOBAL_PDB._env = HOME

\* C1 as the spec states it: the second of two sequential calls from the same
\* identity returns the object of the first when reuse is enabled, and a
\* distinct new object when reuse is disabled.
C1_AsStated ==
    \A a \in Args : SecondOfTwo(a) =>
        /\ ReuseEnabled(a) => branch(a) = "reuse"
        /\ ReuseDisabled(a) => branch(a) = "new"

\* C1: the second of two sequential calls from the same identity returns the
\* object of the first when reuse is enabled and the call is made through
\* set_trace() from code that names set_trace or breakpoint; it constructs a
\* distinct new object when reuse is disabled.
C1_SequentialReuse ==
    \A a \in Args : SecondOfTwo(a) =>
        /\ (ReuseEnabled(a) /\ a.chain = ViaSetTrace) => branch(a) = "reuse"
        /\ ReuseDisabled(a) => branch(a) = "new"

\* a request with reuse enabled has returned the object the request before it
\* returned, the idle global session
C1_Witness ==
    /\ lastCall.ret = "reused"
    /\ lastCall.again
    /\ ~lastCall.busy
    /\ lastCall.kw # "False"

\* C2: every request that arrives while a session construction is in progress
\* on the thread takes the guarded path (a plain debugger is built, the global
\* slot is left alone), the second and later nested requests included.
C2_NestedIsPlain ==
    callstack # <<>> => \A a \in Args : branch(a) = "guarded"

\* C3: once a construction request has finished (a reused session, a new
\* session or a plain debugger returned, or an exception raised by __init__)
\* and no construction is in progress, the recursion guard is clear.
C3_GuardCleared ==
    (lastCall.ret \in {"new", "reused", "plain", "raised"} /\ callstack = <<>>)
        => ~in_init

\* the global session was registered under another HOME than the current one
StaleGlobal ==
    GLOBAL_PDB # None /\ GLOBAL_PDB._env # "unset" /\ GLOBAL_PDB._env # HOME

\* C4: a global session registered under another HOME is returned by no
\* request, whatever its class, force override and reuse flags.
C4_StaleNeverReused ==
    StaleGlobal => \A a \in Args : branch(a) # "reuse"

\* C5 as the spec states it: while the global session is inside interaction()
\* no request returns it; with the guard clear a new session is constructed.
C5_AsStated ==
    GlobalBusy => \A a \in Args :
        branch(a) # "reuse" /\ (~in_init => branch(a) = "new")

\* C5: while the global session is inside interaction(), no request that does
\* not pass use_global_pdb=True itself returns it; with the guard clear such a
\* request constructs a new session.
C5_BusyNotReused ==
    GlobalBusy => \A a \in Args : a.use_global_pdb # "True" =>
        branch(a) # "reuse" /\ (~in_init => branch(a) = "new")

\* a request without use_global_pdb=True arrived while the global session was
\* inside interaction() and a new session was constructed for it
C5_Witness ==
    /\ lastCall.ret = "new"
    /\ lastCall.busy
    /\ lastCall.kw # "True"

(***************************************************************************)
(* Part 2.  Hidden frames and frame navigation of one session              *)
(*                                                                         *)
(* A frame is a record: its identity (id, the position bdb found it at)    *)
(* and the attributes Pdb._is_hidden reads.  The session is followed from  *)
(* the moment interaction() calls setup() for a stop, through the commands *)
(* typed at the prompt.  An exception raised by a command handler leaves   *)
(* the command loop: pc = "raised".                                        *)
(***************************************************************************)
\* the attributes of a frame that _is_hidden reads:
\*   decorated   f_code.co_consts[-1] is _HIDE_FRAME (@pdbpp.hideframe)
\*   unittest    f_globals.get("__unittest")
\*   tbh_local   f_locals["__tracebackhide__"]: "absent", "True" or "False"
\*   tbh_global  f_globals["__tracebackhide__"]: "absent", "True" or "False"
Marks(d, u, l, g) == [decorated |-> d, unittest |-> u, tbh_local |-> l, tbh_global |-> g]
FrameKinds ==
    { Marks(FALSE, FALSE, "absent", "absent"),    \* no marker
      Marks(TRUE,  FALSE, "absent", "absent"),    \* @hideframe
      Marks(FALSE, TRUE,  "absent", "absent"),    \* __unittest in globals
      Marks(FALSE, FALSE, "True",   "absent"),    \* __tracebackhide__ = True, local
      Marks(FALSE, FALSE, "absent", "True"),      \* __tracebackhide__ = True, global
      Marks(FALSE, FALSE, "False",  "True") }     \* local False over global True

\* the frame object found at position i, with the attributes k
FrameObj(i, k) ==
    [ id |-> i, decorated |-> k.decorated, unittest |-> k.unittest,
      tbh_local |-> k.tbh_local, tbh_global |-> k.tbh_global ]

\* the stacks of n distinct frames
StacksOfLen(n) ==
    { [i \in 1..n |-> FrameObj(i, ks[i])] : ks \in [1..n -> FrameKinds] }

\* the stacks bdb.Bdb.get_stack can return: 1..MaxFrames distinct frames
Stacks == UNION { StacksOfLen(n) : n \in 1..MaxFrames }

\* variant: the frame set_trace was called from gets no exemption
_is_hidden_any_frame(frame) ==
    IF ~enable_hidden_frames THEN FALSE
    ELSE IF frame.decorated THEN TRUE
    ELSE IF frame.unittest THEN TRUE
    ELSE IF frame.tbh_local # "absent" THEN frame.tbh_local = "True"
    ELSE IF frame.tbh_global # "absent" THEN frame.tbh_global = "True"
    ELSE FALSE

\* Pdb._is_hidden(frame)
_is_hidden(frame) ==
    IF ~enable_hidden_frames THEN FALSE
    ELSE IF frame.decorated THEN TRUE
    ELSE IF frame.id = _via_set_trace_frame THEN FALSE
    ELSE IF frame.unittest THEN TRUE
    ELSE IF frame.tbh_local # "absent" THEN frame.tbh_local = "True"
    ELSE IF frame.tbh_global # "absent" THEN frame.tbh_global = "True"
    ELSE FALSE

\* an optional index: <<>> is None, <<i>> the integer i
NoIdx == <<>>
Idx(i) == <<i>>

\* list.pop(): the last element, and the list without it
Last(s) == s[Len(s)]
Front(s) == SubSeq(s, 1, Len(s) - 1)

\* variant: the hidden frames are recorded and left on the stack
compute_stack_unfiltered(self, fs, idx) ==
    IF fs = <<>>
    THEN [stack |-> fs, idx |-> IF idx # NoIdx THEN idx[1] ELSE 0,
          hidden |-> self._hidden_frames]
    ELSE LET i == IF idx = NoIdx THEN Len(fs) - 1 ELSE idx[1] IN
         IF self.show_hidden_frames
         THEN [stack |-> fs, idx |-> i, hidden |-> self._hidden_frames]
         ELSE [stack |-> fs, idx |-> i, hidden |-> SelectSeq(fs, LAMBDA f : _is_hidden(f))]

\* variant: a fully hidden stack is left empty
compute_stack_all_hidden(self, fs, idx) ==
    IF fs = <<>>
    THEN [stack |-> fs, idx |-> IF idx # NoIdx THEN idx[1] ELSE 0,
          hidden |-> self._hidden_frames]
    ELSE LET i == IF idx = NoIdx THEN Len(fs) - 1 ELSE idx[1] IN
         IF self.show_hidden_frames
         THEN [stack |-> fs, idx |-> i, hidden |-> self._hidden_frames]
         ELSE LET hid == SelectSeq(fs, LAMBDA f : _is_hidden(f))
                  new == SelectSeq(fs, LAMBDA f : ~_is_hidden(f))
              IN [stack |-> new, idx |-> i - Len(hid), hidden |-> hid]

\* Pdb.compute_stack(self, fullstack, idx): the stack and index it returns and
\* the value it leaves in self._hidden_frames.  self is the record of the
\* attributes it reads, show_hidden_frames and _hidden_frames.
compute_stack(self, fs, idx) ==
    IF fs = <<>>
    THEN [stack |-> fs, idx |-> IF idx # NoIdx THEN idx[1] ELSE 0,
          hidden |-> self._hidden_frames]
    ELSE LET i == IF idx = NoIdx THEN Len(fs) - 1 ELSE idx[1] IN
         IF self.show_hidden_frames
         THEN [stack |-> fs, idx |-> i, hidden |-> self._hidden_frames]
         ELSE LET hid == SelectSeq(fs, LAMBDA f : _is_hidden(f))
                  new == SelectSeq(fs, LAMBDA f : ~_is_hidden(f))
                  newstack == IF new = <<>> THEN <<Last(hid)>> ELSE new
                  hidden == IF new = <<>> THEN Front(hid) ELSE hid
              IN [stack |-> newstack, idx |-> i - Len(hidden), hidden |-> hidden]

\* the attributes of the session that compute_stack reads
Self == [show_hidden_frames |-> show_hidden_frames, _hidden_frames |-> _hidden_frames]

\* variant: the index bdb found is dropped
get_stack_newest == compute_stack(Self, bdb_stack, NoIdx)

\* Pdb.get_stack(f, t): super().get_stack(f, t) handed to compute_stack
get_stack == compute_stack(Self, bdb_stack, Idx(bdb_idx))

\* Python's list indexing s[i]: IndexError unless -len(s) <= i < len(s)
InRange(s, i) == -Len(s) <= i /\ i < Len(s)
At(s, i) == IF i >= 0 THEN s[i + 1] ELSE s[Len(s) + i + 1]

\* an argument typed after a command: nothing, an integer, or other text
EmptyArg == [kind |-> "empty", n |-> 0]
TextArg == [kind |-> "text", n |-> 0]
IntArg(n) == [kind |-> "int", n |-> n]
IntArgs == { IntArg(n) : n \in (-MaxFrames)..MaxFrames }
NavArgs == IntArgs \cup {EmptyArg, TextArg}

\* pdb.Pdb.setup as Pdb.setup calls it (lines 567-574): the stack and index of
\* get_stack are stored, then self.curframe = self.stack[self.curindex][0].
setup ==
    /\ pc = "entry"
    /\ fullstack' = bdb_stack
    /\ stack' = get_stack.stack
    /\ curindex' = get_stack.idx
    /\ _hidden_frames' = get_stack.hidden
    /\ IF InRange(get_stack.stack, get_stack.idx)
       THEN curframe' = At(get_stack.stack, get_stack.idx).id /\ pc' = "prompt"
       ELSE curframe' = curframe /\ pc' = "raised"
    /\ UNCHANGED <<bdb_stack, bdb_idx, enable_hidden_frames, _via_set_trace_frame,
                   show_hidden_frames, nonStackVars>>

\* the handler returns after printing: the selection is as it was
Quiet == UNCHANGED <<curindex, curframe, pc>>

\* self.curindex = i; self.curframe = self.stack[self.curindex][0].
\* The index is stored before the subscript can raise IndexError.
Select(i) ==
    /\ curindex' = i
    /\ IF InRange(stack, i)
       THEN curframe' = At(stack, i).id /\ pc' = pc
       ELSE curframe' = curframe /\ pc' = "raised"

NavFrame ==
    UNCHANGED <<bdb_stack, bdb_idx, enable_hidden_frames, _via_set_trace_frame,
                show_hidden_frames, fullstack, stack, _hidden_frames, nonStackVars>>

\* arg = "1" if arg == "" else arg
or_1(arg) == IF arg.kind = "empty" THEN IntArg(1) ELSE arg

\* The "***" message do_up(arg) prints instead of moving; "" when it moves.
up_says(arg) ==
    IF or_1(arg).kind # "int" THEN "*** Expected a number"
    ELSE IF curindex - or_1(arg).n < 0 THEN "*** Oldest frame"
    ELSE ""

\* Pdb.do_up(arg)
do_up(arg) ==
    /\ pc = "prompt"
    /\ IF up_says(arg) # "" THEN Quiet ELSE Select(curindex - or_1(arg).n)
    /\ NavFrame

\* The "***" message do_down(arg) prints instead of moving; "" when it moves.
down_says(arg) ==
    IF or_1(arg).kind # "int" THEN "*** Expected a number"
    ELSE IF curindex + or_1(arg).n >= Len(stack) THEN "*** Newest frame"
    ELSE ""

\* Pdb.do_down(arg)
do_down(arg) ==
    /\ pc = "prompt"
    /\ IF down_says(arg) # "" THEN Quiet ELSE Select(curindex + or_1(arg).n)
    /\ NavFrame

\* abs(n)
abs(n) == IF n < 0 THEN -n ELSE n

\* The "***" message do_frame(arg) prints instead of moving; "" when it moves
\* or, without argument, shows the current entry.
frame_says(arg) ==
    IF arg.kind = "empty" THEN ""
    ELSE IF arg.kind # "int" THEN "*** Expected a number"
    ELSE IF abs(arg.n) >= Len(stack) THEN "*** Out of range"
    ELSE ""

\* Pdb.do_frame(arg)
do_frame(arg) ==
    /\ pc = "prompt"
    /\ IF arg.kind = "empty"
       THEN IF InRange(stack, curindex)
            THEN Quiet
            ELSE pc' = "raised" /\ UNCHANGED <<curindex, curframe>>
       ELSE IF frame_says(arg) # "" THEN Quiet
       ELSE IF arg.n >= 0 THEN Select(arg.n)
       ELSE Select(Len(stack) + arg.n)
    /\ NavFrame

\* Pdb._select_frame(number)
_select_frame(number) ==
    IF 0 <= number /\ number < Len(stack)
    THEN Select(number)
    ELSE pc' = "raised" /\ UNCHANGED <<curindex, curframe>>

\* Pdb.do_top(arg); self.error("Oldest frame") when already there
do_top ==
    /\ pc = "prompt"
    /\ IF curindex = 0 THEN Quiet ELSE _select_frame(0)
    /\ NavFrame

\* Pdb.do_bottom(arg); self.error("Newest frame") when already there
do_bottom ==
    /\ pc = "prompt"
    /\ IF curindex + 1 = Len(stack) THEN Quiet ELSE _select_frame(Len(stack) - 1)
    /\ NavFrame

\* Pdb.refresh_stack(), run with self.show_hidden_frames = show
\* variant: the newest frame is selected whatever the current frame
refresh_stack_newest(show) ==
    LET r == compute_stack([Self EXCEPT !.show_hidden_frames = show], fullstack, NoIdx)
    IN /\ stack' = r.stack
       /\ _hidden_frames' = r.hidden
       /\ curindex' = Len(r.stack) - 1
       /\ curframe' = Last(r.stack).id

\* Pdb.refresh_stack(), lines 628-641, with self.show_hidden_frames as just set
refresh_stack(show) ==
    LET r == compute_stack([Self EXCEPT !.show_hidden_frames = show], fullstack, NoIdx)
        found == { i \in 1..Len(r.stack) : r.stack[i].id = curframe }
    IN /\ stack' = r.stack
       /\ _hidden_frames' = r.hidden
       /\ IF found # {}
          THEN /\ curindex' = (CHOOSE i \in found : \A j \in found : i <= j) - 1
               /\ curframe' = curframe
          ELSE /\ curindex' = Len(r.stack) - 1
               /\ curframe' = Last(r.stack).id

\* Pdb.do_hf_unhide(arg)
do_hf_unhide ==
    /\ pc = "prompt"
    /\ show_hidden_frames' = TRUE
    /\ refresh_stack(TRUE)
    /\ UNCHANGED <<bdb_stack, bdb_idx, enable_hidden_frames, _via_set_trace_frame,
                   fullstack, pc, nonStackVars>>

\* Pdb.do_hf_hide(arg)
do_hf_hide ==
    /\ pc = "prompt"
    /\ show_hidden_frames' = FALSE
    /\ refresh_stack(FALSE)
    /\ UNCHANGED <<bdb_stack, bdb_idx, enable_hidden_frames, _via_set_trace_frame,
                   fullstack, pc, nonStackVars>>

\* no construction request is made while the stack is followed
CtorIdle ==
    /\ GLOBAL_PDB = None
    /\ in_init = FALSE
    /\ HOME = "/home/a"
    /\ REUSE = "1"
    /\ callstack = <<>>
    /\ lastCall = Observed("none", FALSE, FALSE, FALSE, "absent")

NoCtor ==
    /\ CtorIdle
    /\ NoView

\* interaction(frame, tb) is about to call setup: bdb has found the stack, the
\* session has the attributes of Pdb.__init__ and, if it was entered through
\* set_trace, the frame that called it.
InitStack ==
    /\ NoCtor
    /\ bdb_stack \in Stacks
    /\ bdb_idx \in 0..(Len(bdb_stack) - 1)
    /\ enable_hidden_frames \in BOOLEAN
    /\ _via_set_trace_frame \in 0..Len(bdb_stack)
    /\ show_hidden_frames = FALSE
    /\ fullstack = <<>>
    /\ stack = <<>>
    /\ _hidden_frames = <<>>
    /\ curindex = 0
    /\ curframe = 0
    /\ pc = "entry"
    /\ NoParse
    /\ NoComplete

NextStack ==
    \/ setup
    \/ \E arg \in NavArgs : do_up(arg)
    \/ \E arg \in NavArgs : do_down(arg)
    \/ \E arg \in NavArgs : do_frame(arg)
    \/ do_top
    \/ do_bottom
    \/ do_hf_unhide
    \/ do_hf_hide

SpecStack == InitStack /\ [][NextStack]_vars

\* The scenario of the spec: the stack [A, B, C] with A and B hidden and C not,
\* the current frame B, hidden frames enabled and not shown.
Scenario ==
    /\ Len(bdb_stack) = 3
    /\ bdb_idx = 1
    /\ enable_hidden_frames
    /\ ~show_hidden_frames
    /\ _is_hidden(bdb_stack[1])
    /\ _is_hidden(bdb_stack[2])
    /\ ~_is_hidden(bdb_stack[3])

InitScenario ==
    /\ NoCtor
    /\ bdb_stack \in StacksOfLen(3)
    /\ bdb_idx = 1
    /\ enable_hidden_frames = TRUE
    /\ _via_set_trace_frame \in 0..Len(bdb_stack)
    /\ show_hidden_frames = FALSE
    /\ fullstack = <<>>
    /\ stack = <<>>
    /\ _hidden_frames = <<>>
    /\ curindex = 0
    /\ curframe = 0
    /\ pc = "entry"
    /\ NoParse
    /\ NoComplete
    /\ Scenario

\* the session of the spec's scenario, from setup on
SpecScenario == InitScenario /\ [][NextStack]_vars

(***************************************************************************)
(* Properties of the visibility filter and of navigation.                  *)
(***************************************************************************)
\* setup has run: self.stack holds what compute_stack returned last
Computed == pc \in {"prompt", "raised"}

AllHidden == \A i \in 1..Len(fullstack) : _is_hidden(fullstack[i])

\* C6: for every full stack of at least one frame and every assignment of hide
\* markers the visible stack is never empty; when the filter is applied (hidden
\* frames not shown) and every frame is hidden, the visible stack is exactly
\* the last frame of the full stack and the hidden list is the frames before it.
C6_NeverEmpty ==
    Computed =>
        /\ stack # <<>>
        /\ (~show_hidden_frames /\ AllHidden) =>
              /\ stack = <<Last(fullstack)>>
              /\ _hidden_frames = Front(fullstack)

\* a stack of two or more frames, all hidden, has been filtered
C6_Witness ==
    /\ pc = "prompt"
    /\ ~show_hidden_frames
    /\ Len(fullstack) >= 2
    /\ AllHidden
    /\ stack = <<Last(fullstack)>>

\* the frame set_trace was called from is on the stack
EntryOnStack == _via_set_trace_frame \in 1..Len(fullstack)
EntryFrame == fullstack[_via_set_trace_frame]
OthersHidden ==
    \A i \in 1..Len(fullstack) : i # _via_set_trace_frame => _is_hidden(fullstack[i])
InHiddenList(f) == \E i \in 1..Len(_hidden_frames) : _hidden_frames[i] = f

\* C7: the frame set_trace was called from is hidden only when it is
\* decorator-marked, never by __unittest or a local or global
\* __tracebackhide__; when the filter is applied and every other frame is
\* hidden, the visible stack is exactly that frame.
C7_EntryFrameShown ==
    (Computed /\ EntryOnStack) =>
        /\ _is_hidden(EntryFrame) => EntryFrame.decorated
        /\ InHiddenList(EntryFrame) => EntryFrame.decorated
        /\ (~show_hidden_frames /\ ~EntryFrame.decorated /\ OthersHidden)
              => stack = <<EntryFrame>>

\* the entry frame carries a marker other than the decorator, every other frame
\* is hidden, and the filtered stack shows the entry frame alone
C7_Witness ==
    /\ pc = "prompt"
    /\ ~show_hidden_frames
    /\ enable_hidden_frames
    /\ EntryOnStack
    /\ Len(fullstack) >= 2
    /\ ~EntryFrame.decorated
    /\ (EntryFrame.unittest \/ EntryFrame.tbh_local = "True" \/ EntryFrame.tbh_global = "True")
    /\ OthersHidden
    /\ stack = <<EntryFrame>>

ErrorMessages ==
    {"*** Expected a number", "*** Oldest frame", "*** Newest frame", "*** Out of range"}

\* what C9 allows a navigation command that printed msg to have done: the
\* command loop goes on, and either a frame of the visible stack is selected
\* or a "***" message was printed and index and frame are as before
NavigatedOrRefused(msg) ==
    /\ pc' = "prompt"
    /\ \/ InRange(stack, curindex') /\ curframe' = At(stack, curindex').id
       \/ msg \in ErrorMessages /\ UNCHANGED <<curindex, curframe>>

\* C9: for every integer argument n, up n, down n and frame n either select a
\* frame of the visible stack or print a "***" message and leave index and
\* frame unchanged; none raises an exception.
C9_NavigationNeverRaises ==
    [][\A arg \in IntArgs :
          /\ do_up(arg) => NavigatedOrRefused(up_says(arg))
          /\ do_down(arg) => NavigatedOrRefused(down_says(arg))
          /\ do_frame(arg) => NavigatedOrRefused(frame_says(arg))]_vars

\* the positions a frame takes in a list of frames
Positions(list, f) == {i \in 1..Len(list) : list[i] = f}

\* the frames of a list are frames of the full stack, in its order
InStackOrder(list) ==
    /\ \A i \in 1..Len(list) : Positions(fullstack, list[i]) # {}
    /\ \A i, j \in 1..Len(list) : i < j => list[i].id < list[j].id

\* every frame of the full stack is once in the visible or the hidden list
ExactlyOnce ==
    \A k \in 1..Len(fullstack) :
        Cardinality(Positions(stack, fullstack[k]))
            + Cardinality(Positions(_hidden_frames, fullstack[k])) = 1

Filtered == Computed /\ ~show_hidden_frames

\* C27 as the spec states it: the visible list holds exactly the frames that
\* _is_hidden rejects and the hidden list the others, in stack order.
C27_AsStated ==
    Filtered =>
        /\ \A k \in 1..Len(fullstack) :
              /\ Positions(stack, fullstack[k]) # {} <=> ~_is_hidden(fullstack[k])
              /\ Positions(_hidden_frames, fullstack[k]) # {} <=> _is_hidden(fullstack[k])
        /\ InStackOrder(stack)
        /\ InStackOrder(_hidden_frames)
        /\ ExactlyOnce

\* C27: when hidden frames are not shown, the visible and the hidden list
\* hold every frame of the full stack exactly once between them, each in
\* stack order; the hidden list holds only frames that _is_hidden accepts
\* and the visible list the frames it rejects, or, when it rejects none, the
\* newest frame alone.
C27_Partition ==
    Filtered =>
        /\ \A k \in 1..Len(fullstack) :
              /\ Positions(_hidden_frames, fullstack[k]) # {} => _is_hidden(fullstack[k])
              /\ ~_is_hidden(fullstack[k]) => Positions(stack, fullstack[k]) # {}
              /\ (Positions(stack, fullstack[k]) # {} /\ _is_hidden(fullstack[k]))
                    => AllHidden /\ k = Len(fullstack)
        /\ InStackOrder(stack)
        /\ InStackOrder(_hidden_frames)
        /\ ExactlyOnce

\* a stack of two frames of which the older is hidden and the newer not has
\* been filtered
C27_Witness ==
    /\ pc = "prompt"
    /\ ~show_hidden_frames
    /\ Len(fullstack) = 2
    /\ _is_hidden(fullstack[1])
    /\ ~_is_hidden(fullstack[2])
    /\ stack = <<fullstack[2]>>
    /\ _hidden_frames = <<fullstack[1]>>

\* C28: for every full stack and index that bdb finds, the index the filter
\* returns lies within the visible stack and, if the frame at the index of
\* the full stack is visible, selects that frame.
C28_IndexAdjusted ==
    [][setup =>
          /\ 0 <= curindex' /\ curindex' < Len(stack')
          /\ Positions(stack', bdb_stack[bdb_idx + 1]) # {}
                => stack'[curindex' + 1] = bdb_stack[bdb_idx + 1]]_vars

\* C29: do_hf_unhide and do_hf_hide recompute the stack for the new mode;
\* the current frame stays selected if the new stack holds it and the newest
\* frame of the new stack is selected otherwise; curindex is the position of
\* the current frame in the new stack.
C29_SelectionKept ==
    [][(do_hf_unhide \/ do_hf_hide) =>
          /\ show_hidden_frames' => stack' = fullstack
          /\ ~show_hidden_frames' =>
                stack' = compute_stack([Self EXCEPT !.show_hidden_frames = FALSE],
                                       fullstack, NoIdx).stack
          /\ IF \E i \in 1..Len(stack') : stack'[i].id = curframe
             THEN curframe' = curframe
             ELSE curframe' = Last(stack').id
          /\ 0 <= curindex' /\ curindex' < Len(stack')
          /\ stack'[curindex' + 1].id = curframe']_vars

\* hidden frames have been unhidden on a stack whose older frame is hidden:
\* the newer frame is still selected, now at index 1
C29_Witness ==
    /\ pc = "prompt"
    /\ show_hidden_frames
    /\ Len(fullstack) = 2
    /\ _is_hidden(fullstack[1])
    /\ ~_is_hidden(fullstack[2])
    /\ stack = fullstack
    /\ curindex = 1
    /\ curframe = fullstack[2].id

(***************************************************************************)
(* Part 3.  The command line disambiguator: Pdb.parseline                  *)
(*                                                                         *)
(* A Python str is the sequence of its characters, each a one-character    *)
(* string.  The input line is made of at most MaxParts pieces; a piece is  *)
(* a word or a single character.                                           *)
(***************************************************************************)
str_r == <<"r">>
str_b == <<"b">>
str_pp == <<"p", "p">>
str_list == <<"l", "i", "s", "t">>
str_next == <<"n", "e", "x", "t">>
str_help == <<"h", "e", "l", "p">>
str_inspect == <<"i", "n", "s", "p", "e", "c", "t">>
str_inspect_with_source ==
    str_inspect \o <<"_", "w", "i", "t", "h", "_", "s", "o", "u", "r", "c", "e">>

Pieces ==
    { str_r, str_list, <<"1">>, <<" ">>, <<"=">>, <<"(">>, <<"'">>, <<"?">>, <<"!">> }

RECURSIVE LinesOf(_)
LinesOf(n) ==
    IF n = 0 THEN {<<>>}
    ELSE LinesOf(n - 1) \cup { l \o p : l \in LinesOf(n - 1), p \in Pieces }

\* lines of the form <count><word>[ ]<text>, such as "10pp x"
CountedLines ==
    { n \o w \o s \o a :
        n \in {<<"1">>, <<"1", "0">>},
        w \in {str_r, str_list, str_pp},
        s \in {<<>>, <<" ">>},
        a \in {<<"x">>, <<"=", "x">>, <<"(", "x">>, <<"x", "?">>} }

\* lines of the form <alias>[ ]<string literal>, such as "b'x'" and "b 'x'"
QuotedLines ==
    { w \o s \o q :
        w \in {str_b, str_r},
        s \in {<<>>, <<" ">>},
        q \in {<<"'", "x", "'">>, <<"\"", "x", "\"">>} }

Lines == LinesOf(MaxParts) \cup CountedLines \cup QuotedLines

\* the names of the do_ methods of Pdb that a line of Lines can yield as cmd
Commands == {str_r, str_b, str_pp, str_list, str_help}
\* hasattr(self, "do_" + cmd)
has_do(cmd) == cmd \in Commands

\* cmd.Cmd.identchars: string.ascii_letters + string.digits + "_"
digits == {"0", "1", "2", "3", "4", "5", "6", "7", "8", "9"}
identchars ==
    { "a", "b", "c", "d", "e", "f", "g", "h", "i", "j", "k", "l", "m", "n", "o",
      "p", "q", "r", "s", "t", "u", "v", "w", "x", "y", "z", "_" } \cup digits

RECURSIVE lstrip(_)
lstrip(s) == IF s # <<>> /\ Head(s) = " " THEN lstrip(Tail(s)) ELSE s
RECURSIVE rstrip(_)
rstrip(s) == IF s # <<>> /\ s[Len(s)] = " " THEN rstrip(SubSeq(s, 1, Len(s) - 1)) ELSE s
\* str.strip()
strip(s) == rstrip(lstrip(s))
\* str.startswith(p), str.endswith(p)
startswith(s, p) == Len(s) >= Len(p) /\ SubSeq(s, 1, Len(p)) = p
endswith(s, p) == Len(s) >= Len(p) /\ SubSeq(s, Len(s) - Len(p) + 1, Len(s)) = p
\* s[i:], i counted from 0
from(s, i) == SubSeq(s, i + 1, Len(s))
\* s.split(ch, 1)[0]
before(s, ch) ==
    LET at == { i \in 1..Len(s) : s[i] = ch }
    IN IF at = {} THEN s
       ELSE SubSeq(s, 1, (CHOOSE i \in at : \A j \in at : i <= j) - 1)

\* the length of the longest prefix of s made of characters of cs
span(s, cs) ==
    LET ends == { i \in 0..Len(s) : \A j \in 1..i : s[j] \in cs }
    IN CHOOSE i \in ends : \A j \in ends : j <= i

\* the value of one decimal digit
digit(ch) ==
    CASE ch = "0" -> 0 [] ch = "1" -> 1 [] ch = "2" -> 2 [] ch = "3" -> 3
      [] ch = "4" -> 4 [] ch = "5" -> 5 [] ch = "6" -> 6 [] ch = "7" -> 7
      [] ch = "8" -> 8 [] ch = "9" -> 9
\* int(s) of a string of decimal digits
RECURSIVE int(_)
int(s) == IF s = <<>> THEN 0 ELSE 10 * int(SubSeq(s, 1, Len(s) - 1)) + digit(s[Len(s)])

\* cmd.Cmd.parseline(line), the super().parseline of Pdb.parseline; pdb.Pdb
\* has no do_shell.
Cmd_parseline(line) ==
    LET l == strip(line)
        tokenize(s) == Token(SubSeq(s, 1, span(s, identchars)),
                             strip(from(s, span(s, identchars))), s)
    IN IF l = <<>> THEN Token(NoneStr, NoneStr, l)
       ELSE IF l[1] = "?" THEN tokenize(str_help \o <<" ">> \o from(l, 1))
       ELSE IF l[1] = "!" THEN Token(NoneStr, NoneStr, l)
       ELSE tokenize(l)

\* self.curframe is set and has the name as a global or local variable
is_variable(name) == name \in f_globals \/ name \in curframe_locals

\* variant: smart command mode never sees a variable
smart_expression_no_variables(cmd, arg, line) == startswith(arg, <<"=">>)

\* Lines 957-964: the line is an expression although cmd is a command.
smart_expression(cmd, arg, line) ==
    \/ curframe # 0 /\ is_variable(cmd) /\ cmd \o arg = line
    \/ startswith(arg, <<"=">>)

\* variant: no command carries a count
count_prefix_none(cmd) == 0

\* re.match(r"(\d+)(\w+)", cmd) on a cmd of identchars: the length of group 1,
\* 0 when there is no match
count_prefix(cmd) ==
    LET d == span(cmd, digits)
    IN IF d = 0 \/ Len(cmd) < 2 THEN 0
       ELSE IF d = Len(cmd) THEN d - 1
       ELSE d

\* variant: no line is taken for a prefixed string literal
prefixed_string_never(cmd, newline) == FALSE

\* Lines 943-947: cmd is a string prefix and a quote follows it at once.
prefixed_string(cmd, newline) ==
    /\ cmd \in {<<"b">>, <<"f">>, <<"r">>, <<"u">>}
    /\ Len(newline) > 1
    /\ newline[2] \in {"'", "\""}

\* Lines 936-968 of Pdb.parseline: smart command mode, on the line as typed
smart_parseline(line) ==
    LET b == Cmd_parseline(line)
        expr == Token(NoneStr, NoneStr, line)
    IN IF b.cmd = NoneStr \/ b.cmd = <<>> THEN b
       ELSE IF prefixed_string(b.cmd, b.line) THEN expr
       ELSE LET n == count_prefix(b.cmd)
                cmd == from(b.cmd, n)
                t == IF n = 0 THEN b
                     ELSE [b EXCEPT !.cmd = cmd,
                                    !.count = <<int(SubSeq(b.cmd, 1, n))>>]
            IN IF ~has_do(cmd) THEN t
               ELSE IF smart_expression(cmd, b.arg, line) THEN expr
               ELSE IF startswith(b.arg, <<"(">>) /\ cmd \in {str_list, str_next}
               THEN expr
               ELSE t

\* Lines 922-934 of Pdb.parseline: a line ending in "?"
inspect_parseline(line) ==
    LET arg == before(line, "?")
    IN IF endswith(line, <<"?", "?">>) THEN Token(str_inspect_with_source, arg, line)
       ELSE IF arg = <<>> THEN Token(str_help, arg, line)
       ELSE IF ~has_do(arg) THEN Token(str_inspect, arg, line)
       ELSE IF curframe = 0 THEN Raised("AttributeError")
       ELSE IF ~is_variable(arg) THEN Token(str_help, arg, line)
       ELSE Token(str_inspect, arg, line)

\* variant: "!!" is not looked for
parseline_no_force(line, executing_rc_lines, under_complete) ==
    IF executing_rc_lines THEN Cmd_parseline(line)
    ELSE IF endswith(line, <<"?">>) /\ ~startswith(line, <<"!">>)
    THEN inspect_parseline(line)
    ELSE LET t == smart_parseline(line)
         IN IF t.cmd = NoneStr /\ under_complete THEN [t EXCEPT !.cmd = <<>>] ELSE t

\* Pdb.parseline(line).  executing_rc_lines is self._pdbpp_executing_rc_lines,
\* under_complete whether a frame named "complete" is among its callers.
parseline(line, executing_rc_lines, under_complete) ==
    IF executing_rc_lines THEN Cmd_parseline(line)
    ELSE IF startswith(line, <<"!", "!">>)
    THEN [Cmd_parseline(from(line, 2)) EXCEPT !.line = <<"!", "!">> \o @]
    ELSE IF endswith(line, <<"?">>) /\ ~startswith(line, <<"!">>)
    THEN inspect_parseline(line)
    ELSE LET t == smart_parseline(line)
         IN IF t.cmd = NoneStr /\ under_complete THEN [t EXCEPT !.cmd = <<>>] ELSE t

ParseFrame == UNCHANGED <<rawline, f_globals, curframe_locals, nonParseVars>>

\* cmd.Cmd.onecmd(line) at the prompt: self.parseline(line)
onecmd ==
    /\ caller = ""
    /\ token' = parseline(rawline, FALSE, FALSE)
    /\ caller' = "onecmd"
    /\ ParseFrame

\* cmd.Cmd.complete: self.parseline(line) with complete among the callers
complete ==
    /\ caller = ""
    /\ token' = parseline(rawline, FALSE, TRUE)
    /\ caller' = "complete"
    /\ ParseFrame

\* Pdb.execRcLines: the line is a line of .pdbrc
execRcLines ==
    /\ caller = ""
    /\ token' = parseline(rawline, TRUE, FALSE)
    /\ caller' = "execRcLines"
    /\ ParseFrame

\* A line has been read.  The session has no current frame, or one frame whose
\* locals may hold r and whose globals may hold list.
InitParse ==
    /\ NoCtor
    /\ bdb_stack = <<>>
    /\ bdb_idx = 0
    /\ enable_hidden_frames = TRUE
    /\ _via_set_trace_frame = 0
    /\ show_hidden_frames = FALSE
    /\ fullstack = <<>>
    /\ stack = <<>>
    /\ _hidden_frames = <<>>
    /\ curindex = 0
    /\ curframe \in {0, 1}
    /\ pc = "prompt"
    /\ rawline \in Lines
    /\ f_globals \in IF curframe = 0 THEN {{}} ELSE SUBSET {str_list}
    /\ curframe_locals \in IF curframe = 0 THEN {{}} ELSE SUBSET {str_r}
    /\ token = Token(NoneStr, NoneStr, <<>>)
    /\ caller = ""
    /\ NoComplete

NextParse ==
    \/ onecmd
    \/ complete
    \/ execRcLines

SpecParse == InitParse /\ [][NextParse]_vars

(***************************************************************************)
(* Properties of the command line disambiguator.                           *)
(***************************************************************************)
\* parseline has run in smart command mode: for the prompt or for completion,
\* not for a line of .pdbrc
SmartParsed == caller \in {"onecmd", "complete"}

\* the returned token names no command / names the command c
ExpressionMode == token.exc = "" /\ token.cmd \in {NoneStr, <<>>}
CommandMode(c) == token.exc = "" /\ token.cmd = c

\* c is a local or global variable of the current frame
HasVar(c) == curframe # 0 /\ is_variable(c)

\* the line is c immediately followed by text: the next character neither
\* continues the word nor is whitespace
Glued(c) ==
    /\ startswith(rawline, c)
    /\ Len(rawline) > Len(c)
    /\ rawline[Len(c) + 1] \notin identchars \cup {" "}

\* the text glued to c makes the line an expression whatever the variables:
\* "=", a quote after b, f, r or u, "(" after list or next
ForcesExpression(c) ==
    \/ rawline[Len(c) + 1] = "="
    \/ c \in {<<"b">>, <<"f">>, <<"r">>, <<"u">>} /\ rawline[Len(c) + 1] \in {"'", "\""}
    \/ c \in {str_list, str_next} /\ rawline[Len(c) + 1] = "("

\* C10 as the spec states it: a line that is the command name c, or c
\* immediately followed by text, is an expression when c is a variable of the
\* current frame and the command c when it is not.
C10_AsStated ==
    SmartParsed => \A c \in Commands :
        (rawline = c \/ Glued(c)) =>
            IF HasVar(c) THEN ExpressionMode ELSE CommandMode(c)

\* C10: a line that is exactly the command name c is an expression when c is
\* a variable of the current frame and the command c when it is not.  For c
\* immediately followed by text, on a line not ending in "?": the line is an
\* expression whatever the variables when the text begins with "=", with a
\* quote after b/f/r/u or with "(" after list/next; otherwise it is an
\* expression when c is a variable and the line has no trailing whitespace,
\* and the command c in every other case.
C10_SmartCommandMode ==
    SmartParsed => \A c \in Commands :
        /\ rawline = c => IF HasVar(c) THEN ExpressionMode ELSE CommandMode(c)
        /\ (Glued(c) /\ ~endswith(rawline, <<"?">>)) =>
              IF ForcesExpression(c) THEN ExpressionMode
              ELSE IF HasVar(c) /\ ~endswith(rawline, <<" ">>) THEN ExpressionMode
              ELSE CommandMode(c)

\* the line r( ... was typed with r a variable of the current frame, and was
\* parsed as an expression
C10_Witness ==
    /\ caller = "onecmd"
    /\ HasVar(str_r)
    /\ Glued(str_r)
    /\ rawline[2] = "("
    /\ ExpressionMode

\* the first token of the line, the digits it begins with, the word glued to
\* them and the text that follows the token
FirstToken == SubSeq(rawline, 1, span(rawline, identchars))
CountDigits == span(FirstToken, digits)
CountedWord == from(FirstToken, CountDigits)
CountedText == strip(from(rawline, Len(FirstToken)))
\* the first token is a decimal count glued to a command word
Counted == CountDigits > 0 /\ CountedWord \in Commands
\* the token is the command CountedWord with the text as argument, carrying
\* the count
CountedCommand ==
    /\ CommandMode(CountedWord)
    /\ token.arg = CountedText
    /\ token.count = <<int(SubSeq(FirstToken, 1, CountDigits))>>

\* C11 as the spec states it: every line whose first token is a count N glued
\* to a command word W, followed by text A, yields command W with argument A
\* carrying the count N.
C11_AsStated == (SmartParsed /\ Counted) => CountedCommand

\* C11: a line read at the prompt or for completion, not ending in "?", whose
\* first token is a count N glued to a command word W, followed by text A,
\* yields command W with argument A (stripped) carrying the count N, unless A
\* begins with "=" or W is list/next and A begins with "(": then the line is
\* an expression.
C11_CountPrefix ==
    (SmartParsed /\ Counted /\ ~endswith(rawline, <<"?">>)) =>
        IF \/ startswith(CountedText, <<"=">>)
           \/ CountedWord \in {str_list, str_next} /\ startswith(CountedText, <<"(">>)
        THEN ExpressionMode
        ELSE CountedCommand

\* "10pp x" was typed at the prompt and parsed as pp, argument x, count 10
C11_Witness ==
    /\ caller = "onecmd"
    /\ rawline = <<"1", "0", "p", "p", " ", "x">>
    /\ token.cmd = str_pp
    /\ token.arg = <<"x">>
    /\ token.count = <<10>>

\* string literals and the aliases that are also string prefixes
Literals == {<<"'", "x", "'">>, <<"\"", "x", "\"">>}
PrefixAliases == {str_b, str_r}

\* C12 as the spec states it: the line "b 'x'" (alias, space, quoted string)
\* is parsed as an expression.
C12_AsStated ==
    (SmartParsed /\ rawline = str_b \o <<" ">> \o <<"'", "x", "'">>) => ExpressionMode

\* C12: an alias that is also a string prefix (b, r) immediately followed by
\* a quoted string, as in "b'x'", is parsed as an expression; with a space
\* between them, as in "b 'x'", the line is the command with the quoted
\* string as its argument.
C12_PrefixedString ==
    SmartParsed => \A w \in PrefixAliases : \A q \in Literals :
        /\ rawline = w \o q => ExpressionMode
        /\ rawline = w \o <<" ">> \o q => CommandMode(w) /\ token.arg = q

\* "b'x'" was typed at the prompt and parsed as an expression
C12_Witness ==
    /\ caller = "onecmd"
    /\ rawline = <<"b", "'", "x", "'">>
    /\ token.cmd = NoneStr
    /\ token.line = rawline

\* the line begins with "!!"; what follows it
Forced == startswith(rawline, <<"!", "!">>)
Remainder == from(rawline, 2)
\* the token is the baseline tokenization of the remainder, the line of the
\* token prefixed with "!!"; no count, no inspect command, no emptied command
ForcedToken ==
    /\ token.exc = ""
    /\ token.cmd = Cmd_parseline(Remainder).cmd
    /\ token.arg = Cmd_parseline(Remainder).arg
    /\ token.line = <<"!", "!">> \o Cmd_parseline(Remainder).line
    /\ token.count = <<>>

\* C13 as the spec states it: every line beginning with "!!" yields the
\* baseline tokenization of the remainder with "!!" put back on the line.
C13_AsStated == (caller # "" /\ Forced) => ForcedToken

\* C13: a line beginning with "!!" read at the prompt or for completion
\* yields the baseline tokenization of its remainder with "!!" put back on
\* the line, whatever the variables of the frame and whatever the other
\* rules would make of it; a line of .pdbrc beginning with "!!" is given
\* whole to the baseline tokenization, which finds no command in it.
C13_ForcedCommand ==
    Forced =>
        /\ SmartParsed => ForcedToken
        /\ caller = "execRcLines" =>
              token = Token(NoneStr, NoneStr, strip(rawline))

\* "!!r" was typed at the prompt with r a variable of the current frame, and
\* was parsed as the command r
C13_Witness ==
    /\ caller = "onecmd"
    /\ rawline = <<"!", "!", "r">>
    /\ HasVar(str_r)
    /\ token.cmd = str_r
    /\ token.line = rawline

\* the line ends in "?" and does not start with "!"; the text before the "?"
QuestionLine == endswith(rawline, <<"?">>) /\ ~startswith(rawline, <<"!">>)
InspectedText == before(rawline, "?")

\* C14: a line read at the prompt or for completion that ends in "?" and does
\* not start with "!" yields, with the text before the "?" as argument:
\* inspect_with_source when it ends in "??"; else help when the text is empty
\* or a registered command name that is no variable of the current frame;
\* else inspect.
C14_InspectOrHelp ==
    (SmartParsed /\ QuestionLine) =>
        /\ token.exc = ""
        /\ token.arg = InspectedText
        /\ token.cmd =
              IF endswith(rawline, <<"?", "?">>) THEN str_inspect_with_source
              ELSE IF \/ InspectedText = <<>>
                      \/ InspectedText \in Commands /\ ~HasVar(InspectedText)
              THEN str_help
              ELSE str_inspect

\* C15: when parseline runs beneath complete and returns a token, the command
\* of the token is never the None marker: with no command determined it is
\* the empty string.
C15_EmptyNotNone ==
    (caller = "complete" /\ token.exc = "") => token.cmd # NoneStr

\* C16: parseline returns a token for every line in every state of the
\* session; it never raises.
C16_NeverRaises == token.exc = ""

(***************************************************************************)
(* Part 4.  The completion merger: Pdb.complete, Pdb._complete and         *)
(* Pdb._filter_completions                                                 *)
(*                                                                         *)
(* A candidate is a Python str, the sequence of its characters.  The two   *)
(* completers are outside the module: what each offers for the texts of    *)
(* the prompt is a list chosen in the initial state, and on any request    *)
(* either of them may raise instead.                                       *)
(***************************************************************************)
\* the character "\x1b"
ESC == "ESC"

\* a name as fancycompleter colours it
colored(name) == <<ESC, "[", "3", "1", "m">> \o name \o <<ESC, "[", "0", "m">>

str_tab == <<"\t">>
str__p == <<"_", "p">>
str___d == <<"_", "_", "d">>
str_a_b == <<"a", ".", "b">>
str_a_c == <<"a", ".", "c">>

\* the candidates the rich completer (fancycompleter) and the basic completer
\* (pdb.Pdb.complete) can offer, and the texts completion is asked for
FancyNames == {str_help, colored(str_help), colored(str__p), str___d, str_tab, str_a_b}
PdbNames == {str_help, str__p, str_a_b, str_a_c}
Texts == {<<"h">>, <<"_">>, <<"_", "_">>, <<"a", ".">>}

RECURSIVE ListsOf(_, _)
ListsOf(names, n) ==
    IF n = 0 THEN {<<>>}
    ELSE ListsOf(names, n - 1)
         \cup { Append(l, x) : l \in ListsOf(names, n - 1), x \in names }

Range(l) == { l[i] : i \in 1..Len(l) }

\* the length of the match of \x1b\[[\d;]+m at the start of s, 0 for no match
fancy_escape(s) ==
    IF Len(s) >= 4 /\ s[1] = ESC /\ s[2] = "["
    THEN LET k == span(from(s, 2), digits \cup {";"})
         IN IF k > 0 /\ Len(s) >= k + 3 /\ s[k + 3] = "m" THEN k + 3 ELSE 0
    ELSE 0

\* RE_REMOVE_FANCYCOMPLETER_ESCAPE_SEQS.sub("", s)
RECURSIVE remove_fancycompleter_escape_seqs(_)
remove_fancycompleter_escape_seqs(s) ==
    IF s = <<>> THEN <<>>
    ELSE IF fancy_escape(s) > 0
    THEN remove_fancycompleter_escape_seqs(from(s, fancy_escape(s)))
    ELSE <<Head(s)>> \o remove_fancycompleter_escape_seqs(Tail(s))

\* the length of the match of \x1b[^m]+m at the start of s, 0 for no match
color_escape(s) ==
    LET ms == { i \in 2..Len(s) : s[i] = "m" }
        m1 == CHOOSE i \in ms : \A j \in ms : i <= j
    IN IF s # <<>> /\ s[1] = ESC /\ ms # {} /\ m1 >= 3 THEN m1 ELSE 0

\* RE_COLOR_ESCAPES.sub("", s)
RECURSIVE remove_color_escapes(_)
remove_color_escapes(s) ==
    IF s = <<>> THEN <<>>
    ELSE IF color_escape(s) > 0 THEN remove_color_escapes(from(s, color_escape(s)))
    ELSE <<Head(s)>> \o remove_color_escapes(Tail(s))

\* fancycompleter.commonprefix(names): the longest common prefix
commonprefix(names) ==
    LET lens == { n \in 0..Len(names[1]) :
                    \A i \in 1..Len(names) : startswith(names[i], SubSeq(names[1], 1, n)) }
    IN IF names = <<>> THEN <<>>
       ELSE SubSeq(names[1], 1, CHOOSE n \in lens : \A k \in lens : k <= n)

\* "." in s
dotted(s) == \E i \in 1..Len(s) : s[i] = "."

\* ".".join(text.split(".")[:-1]) + ".", for a text with a "." in it
dotted_prefix(text) ==
    SubSeq(text, 1, CHOOSE i \in 1..Len(text) :
                        text[i] = "." /\ \A j \in (i + 1)..Len(text) : text[j] # ".")

\* Lines 743-745.  seen is clean_fancy_completions when it is a set or a list
\* of its own; with aliased it is the list self._completions itself.
RECURSIVE append_unseen(_, _, _, _)
append_unseen(completions, pdb_completions, seen, aliased) ==
    IF pdb_completions = <<>> THEN completions
    ELSE LET x == Head(pdb_completions)
             known == IF aliased THEN x \in Range(completions) ELSE x \in seen
         IN append_unseen(IF known THEN completions ELSE Append(completions, x),
                          Tail(pdb_completions), seen, aliased)

\* variant: the placeholder of fancycompleter is kept
only_tab_never(fancy, pdb_completions) == FALSE

\* Line 725: fancycompleter offers only "\t" and pdb has completions.
only_tab(fancy, pdb_completions) == fancy = <<str_tab>> /\ pdb_completions # <<>>

\* variant: the candidates of pdb are appended whether or not fancycompleter
\* offers them
merge_all(text, fancy, pdb) == fancy \o pdb

\* Lines 699-747 of Pdb._complete: self._completions before the filter, from
\* the candidates of fancycompleter and of pdb for the text.
merge(text, fancy, pdb) ==
    LET clean_fancy_completions ==
            IF use_colors THEN { remove_fancycompleter_escape_seqs(x) : x \in Range(fancy) }
            ELSE Range(fancy)
        unseen(x) == x \notin clean_fancy_completions
        pdb_completions == SelectSeq(pdb, unseen)
        completions == IF only_tab(fancy, pdb_completions) THEN <<>> ELSE fancy
        pdb_prefix == commonprefix(pdb_completions)
        stripped ==
            IF dotted(text) /\ pdb_prefix # <<>> /\ Len(pdb_completions) > 1
            THEN [i \in 1..Len(pdb_completions) |->
                    IF startswith(pdb_completions[i], dotted_prefix(text))
                    THEN from(pdb_completions[i], Len(dotted_prefix(text)))
                    ELSE pdb_completions[i]]
            ELSE pdb_completions
        kept ==
            IF Len(completions) = 1 /\ dotted(completions[1]) /\ pdb_prefix # <<>>
            THEN <<>>
            ELSE stripped
    IN IF pdb_completions = <<>> THEN completions
       ELSE append_unseen(completions, kept, clean_fancy_completions,
                          ~use_colors /\ ~only_tab(fancy, pdb_completions))

\* Lines 770-777: the candidates kept for the text
without_underscores(text, completions) ==
    LET public(x) == ~startswith(remove_color_escapes(x), <<"_">>)
        no_dunder(x) == ~startswith(remove_color_escapes(x), <<"_", "_">>)
    IN IF ~endswith(text, <<"_">>) THEN SelectSeq(completions, public)
       ELSE IF ~endswith(text, <<"_", "_">>) THEN SelectSeq(completions, no_dunder)
       ELSE completions

\* variant: the filter is applied on every request
_filter_completions_always(text, completions, last) ==
    [completions |-> without_underscores(text, completions),
     last |-> [text |-> text, n |-> 0]]

\* Pdb._filter_completions(text): self._completions and self._lastcompstate
\* after the call
_filter_completions(text, completions, last) ==
    IF text = last.text /\ last.n > 0
    THEN [completions |-> completions, last |-> last]
    ELSE [completions |-> without_underscores(text, completions),
          last |-> IF text = last.text THEN [last EXCEPT !.n = last.n + 1]
                   ELSE [text |-> text, n |-> 0]]

\* self._completions[state], None for an IndexError
candidate(completions, state) ==
    IF state < Len(completions) THEN completions[state + 1] ELSE NoneStr

\* variant: a request with a state above 0 computes the list anew
_complete_again(text, state) ==
    _filter_completions(text, merge(text, fancy_matches, pdb_matches), _lastcompstate)

\* Pdb._complete(text, state) when no completer raises: self._completions and
\* self._lastcompstate after the call
_complete(text, state) ==
    IF state = 0
    THEN _filter_completions(text, merge(text, fancy_matches, pdb_matches), _lastcompstate)
    ELSE [completions |-> _completions, last |-> _lastcompstate]

CompleteFrame == UNCHANGED <<use_colors, fancy_matches, pdb_matches, nonCompleteVars>>

\* Pdb.complete(text, 0), both completers answering
complete_first(text) ==
    /\ attempts < MaxAttempts \/ text # _lastcompstate.text
    /\ _completions' = _complete(text, 0).completions
    /\ _lastcompstate' = _complete(text, 0).last
    /\ _pdbpp_completing' = FALSE
    /\ lastComplete' = Completed(text, 0, candidate(_completions', 0), "", FALSE)
    /\ attempts' = IF text = _lastcompstate.text THEN attempts + 1 ELSE 1
    /\ CompleteFrame

\* variant: the exception of a completer is swallowed without a message
complete_raises_silently(text, who) ==
    /\ _completions' = <<>>
    /\ _pdbpp_completing' = TRUE
    /\ lastComplete' = Completed(text, 0, NoneStr, who, FALSE)
    /\ UNCHANGED <<_lastcompstate, attempts>>
    /\ CompleteFrame

\* Pdb.complete(text, 0) when the completer who raises: _complete is left at
\* line 703 or 719, complete writes the error and returns None
complete_raises(text, who) ==
    /\ _completions' = <<>>
    /\ _pdbpp_completing' = TRUE
    /\ lastComplete' = Completed(text, 0, NoneStr, who, TRUE)
    /\ UNCHANGED <<_lastcompstate, attempts>>
    /\ CompleteFrame

\* Pdb.complete(text, state) with state > 0, lines 753-756.  readline asks
\* for the states of a text in turn and stops at the first None.
complete_next(state) ==
    /\ state = lastComplete.state + 1
    /\ lastComplete.ret # NoneStr
    /\ _completions' = _complete(lastComplete.text, state).completions
    /\ _lastcompstate' = _complete(lastComplete.text, state).last
    /\ lastComplete' =
          Completed(lastComplete.text, state, candidate(_completions', state), "", FALSE)
    /\ UNCHANGED <<_pdbpp_completing, attempts>>
    /\ CompleteFrame

\* The session is at its prompt, inside _custom_completer(): the namespace of
\* the frame and the commands fix what the completers offer, lists of names
\* of fancy and pdb.  Coloured names come from a fancycompleter that uses
\* colours.
AtPrompt(fancy, pdb) ==
    /\ NoCtor
    /\ bdb_stack = <<>>
    /\ bdb_idx = 0
    /\ enable_hidden_frames = TRUE
    /\ _via_set_trace_frame = 0
    /\ show_hidden_frames = FALSE
    /\ fullstack = <<>>
    /\ stack = <<>>
    /\ _hidden_frames = <<>>
    /\ curindex = 0
    /\ curframe = 1
    /\ pc = "prompt"
    /\ NoParse
    /\ _completions = NoAttribute
    /\ _lastcompstate = [text |-> NoneStr, n |-> 0]
    /\ _pdbpp_completing = FALSE
    /\ use_colors \in BOOLEAN
    /\ fancy_matches \in ListsOf(fancy, MaxCands)
    /\ \A i \in 1..Len(fancy_matches) :
          fancy_matches[i] # remove_fancycompleter_escape_seqs(fancy_matches[i])
              => use_colors
    /\ pdb_matches \in ListsOf(pdb, MaxCands)
    /\ lastComplete = Completed(NoneStr, 0, NoneStr, "", FALSE)
    /\ attempts = 0

\* Sequences of requests, over the names that tell the stages of the filter
\* apart.
InitComplete == AtPrompt({str_help, colored(str__p), str___d}, {str__p})

NextComplete ==
    \/ \E text \in Texts : complete_first(text)
    \/ \E text \in Texts : \E who \in {"fancycompleter", "pdb"} : complete_raises(text, who)
    \/ \E state \in 1..(2 * MaxCands) : complete_next(state)

SpecComplete == InitComplete /\ [][NextComplete]_vars

\* The first request of a prompt, over all the names.
InitMerge == AtPrompt(FancyNames, PdbNames)

first_request(text) ==
    /\ lastComplete.text = NoneStr
    /\ complete_first(text)

NextMerge == \E text \in Texts : first_request(text)

SpecMerge == InitMerge /\ [][NextMerge]_vars

(***************************************************************************)
(* Properties of the completion merger.                                    *)
(***************************************************************************)
\* the latest request with state 0 was answered by both completers, and
\* _completions is the list it built
Answered == lastComplete.text # NoneStr /\ lastComplete.raised = ""

\* a candidate begins with an underscore / with two, under its colours
Underscored(x) == startswith(remove_color_escapes(x), <<"_">>)
Dunder(x) == startswith(remove_color_escapes(x), <<"_", "_">>)

\* the candidates the completers offer; x is in the cached list, whatever its
\* colours
OfferedNames == Range(fancy_matches) \cup Range(pdb_matches)
Shown(x) ==
    \E y \in Range(_completions) : remove_color_escapes(y) = remove_color_escapes(x)

\* C17 as the spec states it, in its weakest reading: for every text, the
\* lists of the first two requests in a row hold no name beginning with an
\* underscore, and from the third request on the single-underscore names
\* offered are in the list, from the fourth the double-underscore names too.
C17_AsStated ==
    Answered =>
        /\ attempts <= 2 => \A y \in Range(_completions) : ~Underscored(y)
        /\ attempts >= 3 => \A x \in OfferedNames : (Underscored(x) /\ ~Dunder(x)) => Shown(x)
        /\ attempts >= 4 => \A x \in OfferedNames : Dunder(x) => Shown(x)

\* C17: for a text requested in a row unchanged, the lists of the first two
\* requests hold every candidate offered except: the names beginning with an
\* underscore when the text does not end in "_"; the names beginning with two
\* underscores when the text ends in one "_" only; none when the text ends in
\* "__".  From the third request on the list holds every candidate offered,
\* single- and double-underscore names together.  A request with another
\* text starts the count again.
C17_Escalation ==
    Answered =>
        LET hidden(x) ==
                IF ~endswith(lastComplete.text, <<"_">>) THEN Underscored(x)
                ELSE IF ~endswith(lastComplete.text, <<"_", "_">>) THEN Dunder(x)
                ELSE FALSE
        IN /\ attempts <= 2 =>
                /\ \A y \in Range(_completions) : ~hidden(y)
                /\ \A x \in OfferedNames : ~hidden(x) => Shown(x)
           /\ attempts >= 3 => \A x \in OfferedNames : Shown(x)

\* the text h was requested a third time in a row, and the list holds the
\* single- and the double-underscore name the rich completer offers
C17_Witness ==
    /\ Answered
    /\ attempts = 3
    /\ lastComplete.text = <<"h">>
    /\ colored(str__p) \in Range(fancy_matches)
    /\ str___d \in Range(fancy_matches)
    /\ colored(str__p) \in Range(_completions)
    /\ str___d \in Range(_completions)

\* C18: a request with a state above 0 leaves the cached list and the
\* escalation state as they are, writes no error, and returns the element of
\* the cached list at that index, or None when the index is beyond the list.
C18_CachedList ==
    [][\A state \in 1..(2 * MaxCands) :
          complete_next(state) =>
              /\ _completions' = _completions
              /\ _lastcompstate' = _lastcompstate
              /\ ~lastComplete'.reported
              /\ lastComplete'.ret =
                    IF state + 1 \in DOMAIN _completions THEN _completions[state + 1]
                    ELSE NoneStr]_vars

\* a request with a state beyond a list that is not empty returned None
C18_Witness ==
    /\ lastComplete.state > 0
    /\ _completions # <<>>
    /\ lastComplete.state >= Len(_completions)
    /\ lastComplete.ret = NoneStr

Clean(x) == IF use_colors THEN remove_fancycompleter_escape_seqs(x) ELSE x
\* the basic candidates that equal no rich candidate without its decoration
NewFromPdb ==
    LET new(x) == \A y \in Range(fancy_matches) : x # Clean(y)
    IN SelectSeq(pdb_matches, new)
\* l without the repetitions of its elements
RECURSIVE FirstOccurrences(_)
FirstOccurrences(l) ==
    IF l = <<>> THEN <<>>
    ELSE LET front == FirstOccurrences(SubSeq(l, 1, Len(l) - 1))
         IN IF l[Len(l)] \in Range(front) THEN front ELSE Append(front, l[Len(l)])
\* how often the name x is in the list l, whatever its colours
Occurrences(l, x) == Cardinality({ i \in 1..Len(l) : Clean(l[i]) = x })
\* one of the special rules of the merge applies: the lone tab placeholder,
\* a dotted text, a single dotted rich candidate
SpecialMerge ==
    \/ fancy_matches = <<str_tab>> /\ NewFromPdb # <<>>
    \/ dotted(lastComplete.text)
    \/ Len(fancy_matches) = 1 /\ dotted(fancy_matches[1])

\* C20 as the spec states it: the list of a request is the rich candidates in
\* their order followed by the basic candidates in theirs that equal no rich
\* candidate without its decoration (the underscore filter applied).
C20_AsStated ==
    Answered =>
        _completions = without_underscores(lastComplete.text, fancy_matches \o NewFromPdb)

\* C20: when none of the special rules applies (lone tab placeholder, dotted
\* text, single dotted rich candidate), the list of a request is the rich
\* candidates in their order followed by the basic candidates in theirs that
\* equal no rich candidate without its decoration, a basic candidate offered
\* several times being taken once when colours are off (the underscore filter
\* applied).  In every case a name that the rich completer offers once and
\* the basic completer offers too is in the list at most once, and exactly
\* once when the filter keeps it.
C20_Merge ==
    Answered =>
        /\ ~SpecialMerge =>
              _completions =
                  without_underscores(lastComplete.text,
                      fancy_matches \o (IF use_colors THEN NewFromPdb
                                        ELSE FirstOccurrences(NewFromPdb)))
        /\ \A x \in Range(pdb_matches) :
              Occurrences(fancy_matches, x) = 1 =>
                  /\ Occurrences(_completions, x) <= 1
                  /\ without_underscores(lastComplete.text, <<x>>) # <<>>
                        => Occurrences(_completions, x) = 1

\* help was offered coloured by the rich completer and plain by the basic
\* one, and is in the list once, coloured
C20_Witness ==
    /\ Answered
    /\ lastComplete.text = <<"h">>
    /\ use_colors
    /\ fancy_matches = <<colored(str_help)>>
    /\ pdb_matches = <<str_help>>
    /\ _completions = <<colored(str_help)>>

\* C21: when the rich completer offers the tab placeholder alone and the
\* basic completer offers at least one candidate, the list holds no
\* placeholder, and every candidate in it is one of the basic completer, as
\* offered or without the dotted prefix of the text.
C21_PlaceholderDiscarded ==
    (Answered /\ fancy_matches = <<str_tab>> /\ pdb_matches # <<>>) =>
        /\ str_tab \notin Range(_completions)
        /\ \A y \in Range(_completions) : \E x \in Range(pdb_matches) :
              \/ y = x
              \/ dotted(lastComplete.text) /\ x = dotted_prefix(lastComplete.text) \o y

\* the rich completer offered the placeholder alone, the basic one a.b, and
\* the list is a.b alone
C21_Witness ==
    /\ Answered
    /\ fancy_matches = <<str_tab>>
    /\ pdb_matches = <<str_a_b>>
    /\ lastComplete.text = <<"h">>
    /\ _completions = <<str_a_b>>

\* C25: after every completion request that has returned, one in which a
\* completer raised included, local._pdbpp_completing is False.
C25_FlagCleared ==
    lastComplete.text # NoneStr => ~_pdbpp_completing

(***************************************************************************)
(* Part 5.  The long listing: Pdb._print_lines_pdbpp and Pdb._cut_lines    *)
(*                                                                         *)
(* A source line is the record of what the listing reads of it: whether    *)
(* keep_pat matches it (a decorator line, or one beginning with lambda)    *)
(* and its position in the source, which stands for its text.  An entry of *)
(* the listing pairs a line number (0 for None) with a line or with "...". *)
(***************************************************************************)
\* the line at position i (0-based) of a source whose first h lines are
\* matched by keep_pat
SourceLine(i, h) == [keep |-> i < h, src |-> i]

Source(n, h) == [i \in 1..n |-> SourceLine(i - 1, h)]

Sources == {Source(n, h) : n \in 0..MaxLines, h \in 0..MaxLines}

\* the first line numbers tried: inspect.findsource gives 1, getsourcelines
\* the line of the function
Linenos == {1, 3}

\* the line budgets tried: False of do_longlist, and what the terminal height
\* leaves of a sticky listing, which may be negative
Budgets == {-1, 0, 2, 7, 9}

Dots == [line_no |-> 0, line |-> [keep |-> FALSE, src |-> -1]]

Numbered(no, l) == [line_no |-> no, line |-> l]

max(a, b) == IF a >= b THEN a ELSE b

min(a, b) == IF a <= b THEN a ELSE b

\* variant: the budget is taken as given, without the minimum of 6
window_as_requested(ls, budget) == IF budget # 0 THEN budget ELSE Len(ls)

\* Line 1231.
window(ls, budget) == max(6, IF budget # 0 THEN budget ELSE Len(ls))

\* Lines 1247-1249: the lines at the head that keep_pat matches; Len(ls) when
\* all do, where lines[keep_head] raises IndexError.
RECURSIVE keep_head_from(_, _)
keep_head_from(ls, k) ==
    IF k < Len(ls) /\ ls[k + 1].keep THEN keep_head_from(ls, k + 1) ELSE k

keep_head_of(ls) == keep_head_from(ls, 0)

\* Lines 1251-1258: what is yielded for the head.
head_entries(ls, first, keep_head) ==
    IF keep_head > 3
    THEN <<Numbered(first, ls[1]), Dots, Numbered(first + keep_head, ls[keep_head])>>
    ELSE [i \in 1..keep_head |-> Numbered(first + i - 1, ls[i])]

\* Lines 1276-1288: the loop over lines[keep_head:], from position i (0-based)
\* with cut_before lines still to skip.
RECURSIVE cut_loop(_, _, _, _, _, _)
cut_loop(ls, first, i, cut_before, cut_after, out) ==
    IF i >= Len(ls) THEN Printed(out, "")
    ELSE IF cut_before # 0
         THEN IF cut_before - 1 = 0
              THEN cut_loop(ls, first, i + 1, 0, cut_after, Append(out, Dots))
              ELSE IF cut_before - 1 > 0
                   THEN cut_loop(ls, first, i + 1, cut_before - 1, cut_after, out)
                   ELSE Printed(out, "AssertionError")
         ELSE IF cut_after # 0 /\ i >= Len(ls) - cut_after
              THEN Printed(Append(out, Dots), "")
              ELSE cut_loop(ls, first, i + 1, 0, cut_after,
                            Append(out, Numbered(first + i, ls[i + 1])))

\* variant: every line is yielded, whatever the window
_cut_lines_uncut(ls, first, budget, cur, exc) ==
    Printed([i \in 1..Len(ls) |-> Numbered(first + i - 1, ls[i])], "")

\* Lines 1230-1288: the entries the generator yields and the exception that
\* ended it, if one did.
_cut_lines(ls, first, budget, cur, exc) ==
    LET W == window(ls, budget)
        keep_head == keep_head_of(ls)
        cutoff == IF keep_head > 3
                  THEN Len(ls) - W - (keep_head - 3)
                  ELSE Len(ls) - W
        last_marker_line == max(cur, exc) - first
        cut_before == min(cutoff, max(0, last_marker_line - W + (W \div 3) * 2))
        cut_after == cutoff - cut_before
    IN  IF Len(ls) <= W
        THEN Printed([i \in 1..Len(ls) |-> Numbered(first + i - 1, ls[i])], "")
        ELSE IF keep_head >= Len(ls)
             THEN Printed(<<>>, "IndexError")
             ELSE cut_loop(ls, first, keep_head,
                           IF cut_before # 0 THEN cut_before + 1 ELSE 0,
                           IF cut_after > 0 THEN cut_after + 1 ELSE 0,
                           head_entries(ls, first, keep_head))

\* Lines 1315-1320: the marker of a numbered line.
marker(line_no, cur, exc) ==
    IF line_no = cur THEN "->"
    ELSE IF exc # 0 /\ line_no = exc THEN ">>" ELSE ""

\* Lines 1309-1322 and 1333 with print_markers: the entries of _cut_lines
\* with their markers are printed, unless the generator raised, when nothing
\* is.
_print_lines_pdbpp(ls, first, budget, cur, exc) ==
    LET cut == _cut_lines(ls, first, budget, cur, exc)
    IN  IF cut.raised # ""
        THEN Printed(<<>>, cut.raised)
        ELSE Printed([i \in 1..Len(cut.out) |->
                         [line_no |-> cut.out[i].line_no,
                          marker |-> IF cut.out[i].line_no = 0 THEN ""
                                     ELSE marker(cut.out[i].line_no, cur, exc),
                          line |-> cut.out[i].line]],
                     "")

\* do_longlist and the body of a sticky rendering, lines 1154 and 1621.
_printlonglist ==
    /\ new_lines.raised = "idle"
    /\ new_lines' = _print_lines_pdbpp(lines, lineno, max_lines, f_lineno, exc_lineno)
    /\ UNCHANGED <<lines, lineno, f_lineno, exc_lineno, max_lines, nonListVars>>

\* A session stopped in a frame whose source is about to be listed: the
\* current line and the line of the exception, if there is one, are lines of
\* the source.
InitList ==
    /\ CtorIdle
    /\ StackIdle
    /\ NoParse
    /\ NoComplete
    /\ NoDisplay
    /\ NoTrace
    /\ NoSticky
    /\ NoReuse
    /\ NoDebug
    /\ lines \in Sources
    /\ lines # <<>>
    /\ lineno \in Linenos
    /\ f_lineno \in lineno..(lineno + Len(lines) - 1)
    /\ exc_lineno \in {0} \cup lineno..(lineno + Len(lines) - 1)
    /\ max_lines \in Budgets
    /\ new_lines = Printed(<<>>, "idle")

NextList == _printlonglist

SpecList == InitList /\ [][NextList]_vars

\* the lines of the source among the printed entries
ContentLines == {i \in 1..Len(new_lines.out) : new_lines.out[i].line_no # 0}

EllipsisLines == {i \in 1..Len(new_lines.out) : new_lines.out[i].line_no = 0}

ListedAll ==
    /\ Len(new_lines.out) = Len(lines)
    /\ \A i \in 1..Len(lines) : new_lines.out[i].line = lines[i]

\* a listing was printed: the generator ended without an exception
ListingPrinted == new_lines.raised = ""

Exprs == {"a", "b"}

\* the value "nan" is unequal to every value, itself included
Vals == {"1", "2", "nan"}

Objects == 1..MaxObjects

undefined == 0

Raises == -1

value_of(o) == IF o = undefined THEN "<undefined>" ELSE heap[o]

\* Python's `new != old` on two objects
ne(new, old) == value_of(new) # value_of(old) \/ value_of(new) = "nan"

\* Lines 1516-1520: eval in the current frame, NameError gives undefined.
_getval_or_undefined(arg) == bindings[arg]

Watch(expr, value) == [expr |-> expr, value |-> value]

Line(expr, old, new) == [expr |-> expr, old |-> old, new |-> new]

PositionOf(list, expr) == {i \in 1..Len(list) : list[i].expr = expr}

\* dict.__setitem__: an existing key keeps its place
setitem(list, expr, value) ==
    IF PositionOf(list, expr) = {}
    THEN Append(list, Watch(expr, value))
    ELSE [i \in 1..Len(list) |->
             IF list[i].expr = expr THEN Watch(expr, value) ELSE list[i]]

delitem(list, expr) == SelectSeq(list, LAMBDA w : w.expr # expr)

\* Lines 1522-1538.
do_display(arg) ==
    /\ loc = "prompt"
    /\ IF _getval_or_undefined(arg) = Raises
       THEN display_list' = display_list
       ELSE display_list' = setitem(display_list, arg, _getval_or_undefined(arg))
    /\ displayed' = <<>>
    /\ UNCHANGED <<heap, bindings, loc, nonDisplayVars>>

\* Lines 1540-1549.
do_undisplay(arg) ==
    /\ loc = "prompt"
    /\ IF PositionOf(display_list, arg) = {}
       THEN /\ displayed' = <<Line(arg, "**", "not in the display list")>>
            /\ display_list' = display_list
       ELSE /\ displayed' = <<>>
            /\ display_list' = delitem(display_list, arg)
    /\ UNCHANGED <<heap, bindings, loc, nonDisplayVars>>

\* do_continue, do_next, do_step: the program runs on
resume ==
    /\ loc = "prompt"
    /\ loc' = "running"
    /\ displayed' = <<>>
    /\ UNCHANGED <<heap, bindings, display_list, nonDisplayVars>>

\* the program binds a name: the expression evaluates to another object, to
\* none or raises
rebind(expr, o) ==
    /\ loc = "running"
    /\ bindings' = [bindings EXCEPT ![expr] = o]
    /\ UNCHANGED <<heap, display_list, displayed, loc, nonDisplayVars>>

\* the program changes an object in place
mutate(o, v) ==
    /\ loc = "running"
    /\ heap' = [heap EXCEPT ![o] = v]
    /\ UNCHANGED <<bindings, display_list, displayed, loc, nonDisplayVars>>

\* variant of line 1745: printed when not identical and not equal
changed_and(new, old) == new # old /\ ne(new, old)

\* Line 1745: `newvalue is not oldvalue or newvalue != oldvalue`.
changed(new, old) == new # old \/ ne(new, old)

\* Lines 1740-1747: the loop over the items from the i-th on; the evaluation
\* that raises ends it.
RECURSIVE preloop_from(_, _, _)
preloop_from(i, list, out) ==
    IF i > Len(list) THEN [list |-> list, out |-> out, raised |-> FALSE]
    ELSE LET expr == list[i].expr
             oldvalue == list[i].value
             newvalue == _getval_or_undefined(expr)
         IN  IF newvalue = Raises
             THEN [list |-> list, out |-> out, raised |-> TRUE]
             ELSE IF changed(newvalue, oldvalue)
                  THEN preloop_from(i + 1, setitem(list, expr, newvalue),
                                    Append(out, Line(expr, value_of(oldvalue),
                                                     value_of(newvalue))))
                  ELSE preloop_from(i + 1, list, out)

\* Lines 1736-1747: the program stopped and the command loop starts.
preloop ==
    /\ loc = "running"
    /\ LET r == preloop_from(1, display_list, <<>>)
       IN  /\ display_list' = r.list
           /\ displayed' = r.out
           /\ loc' = IF r.raised THEN "raised" ELSE "prompt"
    /\ UNCHANGED <<heap, bindings, nonDisplayVars>>

\* A session at its prompt in a frame with nothing displayed yet.
InitDisplay ==
    /\ CtorIdle
    /\ StackIdle
    /\ NoParse
    /\ NoComplete
    /\ NoList
    /\ NoTrace
    /\ NoSticky
    /\ NoReuse
    /\ NoDebug
    /\ heap \in [Objects -> Vals]
    /\ bindings \in [Exprs -> {Raises, undefined} \cup Objects]
    /\ display_list = <<>>
    /\ displayed = <<>>
    /\ loc = "prompt"

NextDisplay ==
    \/ \E arg \in Exprs : do_display(arg)
    \/ \E arg \in Exprs : do_undisplay(arg)
    \/ resume
    \/ \E expr \in Exprs, o \in {Raises, undefined} \cup Objects : rebind(expr, o)
    \/ \E o \in Objects, v \in Vals : mutate(o, v)
    \/ preloop

SpecDisplay == InitDisplay /\ [][NextDisplay]_vars

\* the lines preloop printed for an expression
PrintedFor(out, expr) == {i \in 1..Len(out) : out[i].expr = expr}

\* C24: when the command loop starts, each displayed expression whose new
\* value is unequal to the stored one is printed and stored, and each one
\* whose new value is equal to the stored one, identical or not, is not
\* printed and keeps its stored value.
C24_PrintedIffChanged ==
    [][(loc = "running" /\ loc' = "prompt") =>
          \A i \in 1..Len(display_list) :
             LET expr == display_list[i].expr
                 oldvalue == display_list[i].value
                 newvalue == _getval_or_undefined(expr)
             IN  IF ne(newvalue, oldvalue)
                 THEN /\ PrintedFor(displayed', expr) # {}
                      /\ display_list'[i].value = newvalue
                 ELSE /\ PrintedFor(displayed', expr) = {}
                      /\ display_list'[i].value = oldvalue]_vars

(***************************************************************************)
(* Part 7.  Pdb.set_trace, Pdb.reset and Pdb.forget around a completion    *)
(* request                                                                 *)
(*                                                                         *)
(* The completion request is followed in two steps, from line 695 of       *)
(* _complete, where local._pdbpp_completing is set, to line 751, where it  *)
(* is cleared, or to the exception of a completer.  In between the         *)
(* completers evaluate code of the debugged program, which may call        *)
(* set_trace or reset on the session.  pc is "entry" before setup,         *)
(* "prompt" in the command loop, "completing" inside _complete and         *)
(* "running" when the program runs.                                        *)
(***************************************************************************)
\* frame.f_code.co_filename and frame.f_lineno of the frame with the id given
co_filename(frame) == IF frame = 1 THEN "a.py" ELSE "b.py"

f_lineno_of(frame) == 10 * frame

\* the frames set_trace can be handed: those of the stack and another one
TraceFrames == 1..(MaxFrames + 1)

\* the stacks of frames without hide markers
PlainStacks ==
    { [i \in 1..n |-> FrameObj(i, Marks(FALSE, FALSE, "absent", "absent"))] :
        n \in 1..MaxFrames }

\* bdb.Bdb.forget, which Pdb.forget calls at line 653
super_forget ==
    /\ stack' = <<>>
    /\ curindex' = 0
    /\ curframe' = 0

\* Lines 651-653.
forget ==
    IF ~_pdbpp_completing THEN super_forget
    ELSE UNCHANGED <<stack, curindex, curframe>>

\* Lines 643-649.
reset ==
    /\ pc \in {"prompt", "completing", "running"}
    /\ botframe' = TRUE
    /\ forget
    /\ called' = Called("reset", "returned")
    /\ UNCHANGED <<bdb_stack, bdb_idx, enable_hidden_frames, _via_set_trace_frame,
                   show_hidden_frames, fullstack, _hidden_frames, pc,
                   disabled, start_filename, start_lineno, _stopped_for_set_trace,
                   tracing, py314, ctorVars, parseVars, completeVars, listVars,
                   displayVars, debugVars, stickyVars, stdout, sys_stdout, open_streams,
                   _set_trace_use_next, stepped>>

TraceFrame ==
    UNCHANGED <<bdb_stack, bdb_idx, enable_hidden_frames, show_hidden_frames,
                fullstack, _hidden_frames, pc, disabled, py314, ctorVars,
                parseVars, completeVars, listVars, displayVars, debugVars, stickyVars,
                stdout, sys_stdout, open_streams>>

\* variant: the mark is left on the session
set_step_keeps_mark ==
    /\ stepped' = IF _set_trace_use_next THEN "next" ELSE "step"
    /\ UNCHANGED _set_trace_use_next

\* Lines 2023-2030: bdb's set_step, and set_next(self._via_set_trace_frame)
\* after it when the session is marked; the mark is deleted.
set_step ==
    /\ stepped' = IF _set_trace_use_next THEN "next" ELSE "step"
    /\ _set_trace_use_next' = FALSE

\* variant: no test of local._pdbpp_completing
set_trace_while_completing(frame, commands) ==
    /\ pc \in {"prompt", "completing", "running"}
    /\ IF commands /\ ~py314
       THEN /\ called' = Called("set_trace", "ValueError")
            /\ UNCHANGED <<stack, curindex, curframe, _via_set_trace_frame,
                           start_filename, start_lineno, _stopped_for_set_trace,
                           tracing, botframe, _set_trace_use_next, stepped>>
       ELSE IF disabled
       THEN /\ called' = Called("set_trace", "returned")
            /\ UNCHANGED <<stack, curindex, curframe, _via_set_trace_frame,
                           start_filename, start_lineno, _stopped_for_set_trace,
                           tracing, botframe, _set_trace_use_next, stepped>>
       ELSE /\ _via_set_trace_frame' = frame
            /\ _stopped_for_set_trace' = FALSE
            /\ start_filename' = co_filename(frame)
            /\ start_lineno' = f_lineno_of(frame)
            /\ super_forget
            /\ botframe' = TRUE
            /\ set_step
            /\ tracing' = TRUE
            /\ called' = Called("set_trace", "tracing")
    /\ TraceFrame

\* Lines 2044-2071; super().set_trace(frame) calls self.reset() and
\* self.set_step() and installs the trace function.
set_trace(frame, commands) ==
    /\ pc \in {"prompt", "completing", "running"}
    /\ IF commands /\ ~py314
       THEN /\ called' = Called("set_trace", "ValueError")
            /\ UNCHANGED <<stack, curindex, curframe, _via_set_trace_frame,
                           start_filename, start_lineno, _stopped_for_set_trace,
                           tracing, botframe, _set_trace_use_next, stepped>>
       ELSE IF _pdbpp_completing \/ disabled
       THEN /\ called' = Called("set_trace", "returned")
            /\ UNCHANGED <<stack, curindex, curframe, _via_set_trace_frame,
                           start_filename, start_lineno, _stopped_for_set_trace,
                           tracing, botframe, _set_trace_use_next, stepped>>
       ELSE /\ _via_set_trace_frame' = frame
            /\ _stopped_for_set_trace' = FALSE
            /\ start_filename' = co_filename(frame)
            /\ start_lineno' = f_lineno_of(frame)
            /\ forget
            /\ botframe' = TRUE
            /\ set_step
            /\ tracing' = TRUE
            /\ called' = Called("set_trace", "tracing")
    /\ TraceFrame

FlagFrame ==
    UNCHANGED <<bdb_stack, bdb_idx, enable_hidden_frames, _via_set_trace_frame,
                show_hidden_frames, fullstack, stack, _hidden_frames, curindex,
                curframe, disabled, start_filename, start_lineno,
                _stopped_for_set_trace, tracing, py314, ctorVars, parseVars,
                _completions, _lastcompstate, use_colors, fancy_matches,
                pdb_matches, lastComplete, attempts, nonTraceViews>>

\* Lines 692-695: a request with state 0 enters _complete.
begin_complete ==
    /\ pc = "prompt"
    /\ pc' = "completing"
    /\ _pdbpp_completing' = TRUE
    /\ called' = Called("complete", "")
    /\ FlagFrame

\* Lines 751-756: the completers have returned.
end_complete ==
    /\ pc = "completing"
    /\ pc' = "prompt"
    /\ _pdbpp_completing' = FALSE
    /\ called' = Called("complete", "returned")
    /\ FlagFrame

\* Lines 684-690: a completer raised; complete reports the error and returns.
completer_raises ==
    /\ pc = "completing"
    /\ pc' = "prompt"
    /\ _pdbpp_completing' = _pdbpp_completing
    /\ called' = Called("complete", "reported")
    /\ FlagFrame

\* Lines 476-487: the command loop returns and interaction ends with
\* self.forget(); the program runs on.
end_interaction ==
    /\ pc = "prompt"
    /\ pc' = "running"
    /\ forget
    /\ called' = Called("interaction", "returned")
    /\ UNCHANGED <<bdb_stack, bdb_idx, enable_hidden_frames, _via_set_trace_frame,
                   show_hidden_frames, fullstack, _hidden_frames,
                   disabled, start_filename, start_lineno, _stopped_for_set_trace,
                   tracing, py314, ctorVars, parseVars, completeVars, nonTraceViews>>

\* Lines 2031-2042 and 436-462: the traced program stops (stop_here) and
\* interaction is about to call setup.
stop_here ==
    /\ pc = "running"
    /\ tracing
    /\ pc' = "entry"
    /\ _stopped_for_set_trace' =
          (_stopped_for_set_trace \/ _via_set_trace_frame = bdb_stack[bdb_idx + 1].id)
    /\ called' = Called("interaction", "")
    /\ UNCHANGED <<bdb_stack, bdb_idx, enable_hidden_frames, _via_set_trace_frame,
                   show_hidden_frames, fullstack, stack, _hidden_frames, curindex,
                   curframe, disabled, start_filename, start_lineno, tracing,
                   py314, ctorVars, parseVars, completeVars, nonTraceViews>>

\* Lines 2205-2221: pdbpp.disable() and pdbpp.enable() on the session.
set_disabled(value) ==
    /\ pc \in {"prompt", "running"}
    /\ disabled' = value
    /\ called' = Called(IF value THEN "disable" ELSE "enable", "returned")
    /\ UNCHANGED <<stackVars, start_filename, start_lineno, _stopped_for_set_trace,
                   tracing, py314, ctorVars, parseVars, completeVars, nonTraceViews>>

\* A session entered through set_trace from one of the frames of the stack,
\* about to call setup.
InitReentry ==
    /\ CtorIdle
    /\ NoParse
    /\ NoComplete
    /\ NoList
    /\ NoDisplay
    /\ NoSticky
    /\ bdb_stack \in PlainStacks
    /\ bdb_idx \in 0..(Len(bdb_stack) - 1)
    /\ enable_hidden_frames = TRUE
    /\ _via_set_trace_frame \in 1..Len(bdb_stack)
    /\ show_hidden_frames = FALSE
    /\ fullstack = <<>>
    /\ stack = <<>>
    /\ _hidden_frames = <<>>
    /\ curindex = 0
    /\ curframe = 0
    /\ pc = "entry"
    /\ disabled = FALSE
    /\ start_filename = co_filename(_via_set_trace_frame)
    /\ start_lineno = f_lineno_of(_via_set_trace_frame)
    /\ _stopped_for_set_trace = TRUE
    /\ tracing = TRUE
    /\ py314 \in BOOLEAN
    /\ called = Called("interaction", "")
    /\ stdout = [stream |-> "tty", writer |-> FALSE]
    /\ sys_stdout = "tty"
    /\ open_streams = {}
    /\ botframe = TRUE
    /\ _set_trace_use_next = FALSE
    /\ stepped = "step"
    /\ NoDebug

NextReentry ==
    \/ setup
    \/ begin_complete
    \/ end_complete
    \/ completer_raises
    \/ \E frame \in TraceFrames, commands \in BOOLEAN : set_trace(frame, commands)
    \/ reset
    \/ end_interaction
    \/ stop_here
    \/ \E value \in BOOLEAN : set_disabled(value)

SpecReentry == InitReentry /\ [][NextReentry]_vars

\* a step leaves the navigation state, the trace function and the recorded
\* start frame and position as they are
NavigationKept ==
    /\ stack' = stack
    /\ curindex' = curindex
    /\ curframe' = curframe

StartKept ==
    /\ tracing' = tracing
    /\ _via_set_trace_frame' = _via_set_trace_frame
    /\ _stopped_for_set_trace' = _stopped_for_set_trace
    /\ start_filename' = start_filename
    /\ start_lineno' = start_lineno

\* C26 as the spec states it: while local._pdbpp_completing is set, forget
\* and set_trace change nothing and set_trace returns.
C26_AsStated ==
    [][(_pdbpp_completing /\ called'.op \in {"set_trace", "reset"}) =>
          /\ NavigationKept
          /\ StartKept
          /\ called'.outcome = "returned"]_vars

\* C26: while local._pdbpp_completing is set, forget leaves stack, curindex
\* and curframe as they are, and set_trace starts no tracing and leaves the
\* recorded start frame and position as they are; it returns, or raises
\* ValueError when it is given commands on a Python before 3.14.
C26_Suppressed ==
    [][(_pdbpp_completing /\ called'.op \in {"set_trace", "reset"}) =>
          /\ NavigationKept
          /\ StartKept
          /\ \/ called'.outcome = "returned"
             \/ called'.outcome = "ValueError" /\ ~py314]_vars

\* set_trace was called inside a completion request of a session that is
\* stopped on a stack, and returned
C26_Witness ==
    /\ pc = "completing"
    /\ _pdbpp_completing
    /\ called = Called("set_trace", "returned")
    /\ stack # <<>>
    /\ curframe # 0
    /\ ~disabled

(***************************************************************************)
(* Part 8.  Sticky mode: Pdb._sticky_handle_cls, Pdb._print_if_sticky and  *)
(* the handlers that set the clear-screen flags                            *)
(***************************************************************************)
CLEARSCREEN == "\\033[2J\\033[1;1H"

\* what a render writes after the clear-screen handling: the stack entry, the
\* source listing and the lines after it
View == "view"

\* What _sticky_handle_cls leaves: the two flags and what it wrote.
Cls(skip, need, wrote) == [skip |-> skip, need |-> need, wrote |-> wrote]

\* variant: the screen is cleared although the skip flag is set
_sticky_handle_cls_unskipped(skip, need) ==
    IF ~need THEN Cls(FALSE, need, <<>>)
    ELSE Cls(FALSE, FALSE, <<CLEARSCREEN>>)

\* Lines 497-506.
_sticky_handle_cls(skip, need) ==
    IF skip THEN Cls(FALSE, need, <<>>)
    ELSE IF ~need THEN Cls(skip, need, <<>>)
    ELSE Cls(skip, FALSE, <<CLEARSCREEN>>)

\* The messages pdb and pdbpp hand to message(): the markers of a return and
\* of a call, and a plain text.
Msgs == {"--Return--", "--Call--", "text"}

\* msg.startswith("--") and msg.endswith("--"), line 1570
is_marker(msg) == msg \in {"--Return--", "--Call--"}

RECURSIVE top_lines_of(_)
\* Lines 1562-1573: the messages appended to top_lines, in queue order.
top_lines_of(msgs) ==
    IF msgs = <<>> THEN <<>>
    ELSE (IF is_marker(Head(msgs)) THEN <<>> ELSE <<Head(msgs)>>)
         \o top_lines_of(Tail(msgs))

RECURSIVE header_markers_of(_, _)
\* Lines 1562-1571: the messages appended to the stack entry line s, in queue
\* order; "--Return--" is skipped for a frame with a return value or an
\* exception.
header_markers_of(msgs, returned) ==
    IF msgs = <<>> THEN <<>>
    ELSE (IF Head(msgs) = "--Return--" /\ returned THEN <<>>
          ELSE IF is_marker(Head(msgs)) THEN <<Head(msgs)>>
          ELSE <<>>)
         \o header_markers_of(Tail(msgs), returned)

\* variant: every queued message is written where it stands in the queue
sticky_messages_in_order(msgs, returned) == msgs

\* Lines 1561-1575 and 1609-1615: top_lines is written first and ends with
\* the stack entry line s, which carries the markers.
sticky_messages_shown(msgs, returned) ==
    top_lines_of(msgs) \o header_markers_of(msgs, returned)

\* Lines 1551-1625, called as op with self.sticky and self._sticky_need_cls
\* as the caller has just set them; `completes` is false when the render
\* raises after the top lines are written (the listing).
_print_if_sticky(op, sticky_now, need_now, completes) ==
    IF sticky_now /\ ~commands_defining
    THEN LET cls == _sticky_handle_cls(_sticky_skip_cls, need_now)
         IN  /\ _sticky_skip_cls' = cls.skip
             /\ shown_messages' = sticky_messages_shown(_sticky_messages, has_return)
             /\ _sticky_messages' = <<>>
             /\ _sticky_need_cls' = IF completes THEN TRUE ELSE cls.need
             /\ rendered' = Rendered(op, TRUE, _sticky_skip_cls, need_now, cls.need,
                                     IF completes THEN cls.wrote \o <<View>>
                                     ELSE cls.wrote,
                                     completes)
    ELSE /\ _sticky_skip_cls' = _sticky_skip_cls
         /\ _sticky_need_cls' = need_now
         /\ rendered' = NotRendered(op)
         /\ shown_messages' = <<>>
         /\ UNCHANGED _sticky_messages

StickyFrame == UNCHANGED nonStickyVars

\* Lines 1660-1687; arg is "" (toggle), "range" (two integers) or "bad".
\* While breakpoint commands are defined, pdb stores the lines typed and
\* runs no command.
do_sticky(arg, completes) ==
    /\ ~commands_defining
    /\ IF arg = "bad"
       THEN /\ rendered' = NotRendered("do_sticky")
            /\ shown_messages' = <<>>
            /\ UNCHANGED <<sticky, _sticky_need_cls, _sticky_skip_cls, _sticky_messages>>
       ELSE LET now == IF arg = "range" THEN TRUE ELSE ~sticky
            IN  /\ sticky' = now
                /\ _print_if_sticky("do_sticky", now,
                                    IF ~sticky /\ now THEN TRUE ELSE _sticky_need_cls,
                                    completes)
    /\ UNCHANGED <<commands_defining, has_return>>
    /\ StickyFrame

\* Lines 1736-1737: the command loop starts.
sticky_preloop(completes) ==
    /\ _print_if_sticky("preloop", sticky, _sticky_need_cls, completes)
    /\ UNCHANGED <<sticky, commands_defining, has_return>>
    /\ StickyFrame

\* Lines 1730-1734, after up, down and frame; not sticky, the entry is printed.
print_current_stack_entry(completes) ==
    /\ ~commands_defining
    /\ _print_if_sticky("print_current_stack_entry", sticky, _sticky_need_cls, completes)
    /\ UNCHANGED <<sticky, commands_defining, has_return>>
    /\ StickyFrame

\* Lines 518-523: every queued message is printed and the queue emptied.
_flush_sticky_messages ==
    /\ shown_messages' = _sticky_messages
    /\ _sticky_messages' = <<>>

\* Lines 508-516.
postcmd(stop) ==
    /\ IF sticky /\ stop /\ ~commands_defining
       THEN LET cls == _sticky_handle_cls(_sticky_skip_cls, _sticky_need_cls)
            IN  /\ _sticky_skip_cls' = cls.skip
                /\ _sticky_need_cls' = cls.need
                /\ rendered' = Rendered("postcmd", FALSE, _sticky_skip_cls,
                                        _sticky_need_cls, cls.need, cls.wrote, FALSE)
                /\ shown_messages' = <<>>
                /\ UNCHANGED _sticky_messages
       ELSE /\ rendered' = NotRendered(IF sticky THEN "_flush_sticky_messages"
                                       ELSE "postcmd")
            /\ IF sticky THEN _flush_sticky_messages
               ELSE /\ shown_messages' = <<>>
                    /\ UNCHANGED _sticky_messages
            /\ UNCHANGED <<_sticky_need_cls, _sticky_skip_cls>>
    /\ UNCHANGED <<sticky, commands_defining, has_return>>
    /\ StickyFrame

\* Lines 489-495, for a frame with a breakpoint, and lines 436-439, for
\* interaction(None, tb).
skip_next_cls(op) ==
    /\ _sticky_skip_cls' = TRUE
    /\ rendered' = NotRendered(op)
    /\ shown_messages' = <<>>
    /\ UNCHANGED <<sticky, commands_defining, _sticky_need_cls, _sticky_messages,
                   has_return>>
    /\ StickyFrame

\* Lines 525-533: set_continue and set_quit.
set_continue_or_quit(op) ==
    /\ _sticky_skip_cls' = (sticky \/ _sticky_skip_cls)
    /\ rendered' = NotRendered(op)
    /\ shown_messages' = <<>>
    /\ UNCHANGED <<sticky, commands_defining, _sticky_need_cls, _sticky_messages,
                   has_return>>
    /\ StickyFrame

\* pdb's do_commands starts the definition of breakpoint commands and `end`
\* closes it
define_commands(value) ==
    /\ commands_defining' = value
    /\ rendered' = NotRendered("do_commands")
    /\ shown_messages' = <<>>
    /\ UNCHANGED <<sticky, _sticky_need_cls, _sticky_skip_cls, _sticky_messages,
                   has_return>>
    /\ StickyFrame

\* Lines 2082-2089; from_user_exception: the caller is user_exception.
message(msg, from_user_exception) ==
    /\ Len(_sticky_messages) < MaxQueue
    /\ IF sticky
       THEN /\ _sticky_messages' = IF from_user_exception THEN _sticky_messages
                                   ELSE Append(_sticky_messages, msg)
            /\ shown_messages' = <<>>
       ELSE /\ shown_messages' = <<msg>>
            /\ UNCHANGED _sticky_messages
    /\ rendered' = NotRendered(IF from_user_exception THEN "user_exception"
                               ELSE "message")
    /\ UNCHANGED <<sticky, commands_defining, _sticky_need_cls, _sticky_skip_cls,
                   has_return>>
    /\ StickyFrame

\* The program runs on to a stop in a frame that holds a return value or an
\* exception in its locals, or holds neither.
user_stop(returned) ==
    /\ has_return' = returned
    /\ rendered' = NotRendered("user_stop")
    /\ shown_messages' = <<>>
    /\ UNCHANGED <<sticky, commands_defining, _sticky_need_cls, _sticky_skip_cls,
                   _sticky_messages>>
    /\ StickyFrame

\* A session after Pdb.__init__ (lines 364-369), sticky or not by
\* config.sticky_by_default.
InitSticky ==
    /\ CtorIdle
    /\ StackIdle
    /\ NoParse
    /\ NoComplete
    /\ NoList
    /\ NoDisplay
    /\ NoTrace
    /\ NoReuse
    /\ NoDebug
    /\ sticky \in BOOLEAN
    /\ commands_defining = FALSE
    /\ _sticky_need_cls = FALSE
    /\ _sticky_skip_cls = FALSE
    /\ rendered = NotRendered("none")
    /\ _sticky_messages = <<>>
    /\ has_return = FALSE
    /\ shown_messages = <<>>

NextSticky ==
    \/ \E arg \in {"", "range", "bad"}, completes \in BOOLEAN : do_sticky(arg, completes)
    \/ \E completes \in BOOLEAN : sticky_preloop(completes)
    \/ \E completes \in BOOLEAN : print_current_stack_entry(completes)
    \/ \E stop \in BOOLEAN : postcmd(stop)
    \/ \E op \in {"break_here", "interaction"} : skip_next_cls(op)
    \/ \E op \in {"set_continue", "set_quit"} : set_continue_or_quit(op)
    \/ \E value \in BOOLEAN : define_commands(value)
    \/ \E msg \in Msgs, from_user_exception \in BOOLEAN :
          message(msg, from_user_exception)
    \/ \E returned \in BOOLEAN : user_stop(returned)

SpecSticky == InitSticky /\ [][NextSticky]_vars

Clears(wrote) == {i \in 1..Len(wrote) : wrote[i] = CLEARSCREEN}

\* C30: a sticky render that finds the skip flag set clears it, writes no
\* clear-screen sequence and leaves the needs-clear flag to the end of the
\* render; one that finds only the needs-clear flag set writes the sequence
\* once, before the view, and unsets the flag; one that finds neither writes
\* no sequence.  After a render that ran to its end the needs-clear flag is
\* set.
C30_ClearScreen ==
    rendered.render =>
        /\ rendered.skip_before =>
              /\ ~_sticky_skip_cls
              /\ Clears(rendered.wrote) = {}
              /\ rendered.need_after_cls = rendered.need_before
        /\ (~rendered.skip_before /\ rendered.need_before) =>
              /\ Clears(rendered.wrote) = {1}
              /\ ~rendered.need_after_cls
        /\ (~rendered.skip_before /\ ~rendered.need_before) =>
              /\ Clears(rendered.wrote) = {}
              /\ ~rendered.need_after_cls
        /\ rendered.completed => _sticky_need_cls

\* a render that found both flags set has run to its end: nothing cleared,
\* the skip flag consumed, the needs-clear flag set
C30_Witness ==
    /\ rendered.render
    /\ rendered.skip_before
    /\ rendered.need_before
    /\ rendered.completed
    /\ rendered.wrote = <<View>>
    /\ ~_sticky_skip_cls
    /\ _sticky_need_cls

\* C31: the sticky command that enters sticky mode from non-sticky mode
\* renders with the needs-clear flag set and writes the clear-screen
\* sequence first, whatever stops and commands came before.
C31_FreshEntryClears ==
    [][(~sticky /\ sticky') =>
          /\ rendered'.render
          /\ rendered'.need_before
          /\ Clears(rendered'.wrote) = {1}]_vars

RECURSIVE IsSubsequence(_, _)
\* s can be had from t by leaving entries out
IsSubsequence(s, t) ==
    IF s = <<>> THEN TRUE
    ELSE IF t = <<>> THEN FALSE
    ELSE IF Head(s) = Head(t) THEN IsSubsequence(Tail(s), Tail(t))
    ELSE IsSubsequence(s, Tail(t))

IsPlain(msg) == msg \notin {"--Return--", "--Call--"}

ShownOnHeader(msg) == ~IsPlain(msg) /\ ~(msg = "--Return--" /\ has_return)

\* the statement of C32 as the specification has it: in sticky mode every
\* message() writes nothing and appends its message to the queue, and a
\* render or a flush writes queued messages in the order queued, each at most
\* once, and empties the queue
C32_AsStated ==
    [][/\ (sticky /\ rendered'.op \in {"message", "user_exception"}) =>
            /\ shown_messages' = <<>>
            /\ \E msg \in Msgs : _sticky_messages' = Append(_sticky_messages, msg)
       /\ (rendered'.render \/ rendered'.op = "_flush_sticky_messages") =>
            /\ IsSubsequence(shown_messages', _sticky_messages)
            /\ _sticky_messages' = <<>>]_vars

\* C32: in sticky mode message() writes nothing; it appends its message to
\* the queue unless user_exception called it, and then the message is
\* dropped.  A flush writes the queued messages in the order queued; a
\* render writes the plain messages in the order queued and after them, on
\* the stack entry line, the markers in the order queued, without
\* "--Return--" for a frame that holds a return value or an exception.
\* Both leave the queue empty.
C32_Queued ==
    [][/\ (sticky /\ rendered'.op = "message") =>
            /\ shown_messages' = <<>>
            /\ \E msg \in Msgs : _sticky_messages' = Append(_sticky_messages, msg)
       /\ (sticky /\ rendered'.op = "user_exception") =>
            /\ shown_messages' = <<>>
            /\ _sticky_messages' = _sticky_messages
       /\ rendered'.op = "_flush_sticky_messages" =>
            /\ shown_messages' = _sticky_messages
            /\ _sticky_messages' = <<>>
       /\ rendered'.render =>
            /\ shown_messages' = SelectSeq(_sticky_messages, IsPlain)
                                     \o SelectSeq(_sticky_messages, ShownOnHeader)
            /\ _sticky_messages' = <<>>]_vars

\* a render has written a plain message and then a marker on the stack entry
\* line, and has left the queue empty
C32_Witness ==
    /\ rendered.render
    /\ shown_messages = <<"text", "--Call--">>
    /\ _sticky_messages = <<>>

\* the source has more lines than the window, so the listing is cut
Truncated == Len(lines) > window(lines, max_lines)

\* the line the frame is stopped at
CurrentLine == lines[f_lineno - lineno + 1]

\* C33: in a printed, truncated listing one of the entries is the current
\* line and carries the current-line marker, and it stands within the first
\* two thirds of the entries.
C33_CurrentLineInView ==
    (ListingPrinted /\ Truncated) =>
        \E i \in 1..Len(new_lines.out) :
            /\ new_lines.out[i].marker = "->"
            /\ new_lines.out[i].line = CurrentLine
            /\ 3 * i <= 2 * Len(new_lines.out)

\* C34: a printed, truncated listing starts with the header run when it has
\* at most 3 lines, and with its first line, an ellipsis marker and its last
\* line when it has more; every line of the source that is printed has its
\* own line number.
C34_HeaderRun ==
    (ListingPrinted /\ Truncated) =>
        LET keep_head == keep_head_of(lines)
            out == new_lines.out
        IN  /\ keep_head <= 3 =>
                  \A i \in 1..keep_head : out[i].line = lines[i]
            /\ keep_head > 3 =>
                  /\ out[1].line = lines[1]
                  /\ out[2] = [line_no |-> 0, marker |-> "", line |-> Dots.line]
                  /\ out[3].line = lines[keep_head]
            /\ \A i \in ContentLines : out[i].line_no = lineno + out[i].line.src

C40_NoException == new_lines.raised \in {"idle", ""}

\* the request opts out of registration
OptedOut(a) ==
    \/ a.set_global_pdb = "False"
    \/ a.set_global_pdb = "absent" /\ ~use_global_pdb(a)

ReuseFrame ==
    UNCHANGED <<ctorVars, stackVars, parseVars, completeVars, listVars,
                displayVars, debugVars, traceVars, stickyVars>>

\* pdb's do_step: self.set_step() on the session at the prompt.
do_step ==
    /\ GLOBAL_PDB # None
    /\ botframe
    /\ set_step
    /\ UNCHANGED <<stdout, sys_stdout, open_streams, botframe>>
    /\ ReuseFrame

\* sys.stdout = s
set_sys_stdout(s) ==
    /\ s # sys_stdout
    /\ sys_stdout' = s
    /\ UNCHANGED <<stdout, open_streams, botframe, _set_trace_use_next, stepped>>
    /\ ReuseFrame

\* the program opens a stream it can pass as stdout=
open_stream(s) ==
    /\ s \notin open_streams
    /\ open_streams' = open_streams \cup {s}
    /\ UNCHANGED <<stdout, sys_stdout, botframe, _set_trace_use_next, stepped>>
    /\ ReuseFrame

\* pdb.set_trace() of the program, the function of pdb.py rebound at lines
\* 2149-2156: a request with no keyword from a frame named set_trace whose
\* caller names set_trace, for the default class and for a subclass
ReuseArgs ==
    {a \in Args : /\ a.use_global_pdb = "absent"
                  /\ a.set_global_pdb = "absent"
                  /\ a.chain = ViaSetTrace}

\* The program runs, with no session yet.
InitReuse ==
    /\ CtorIdle
    /\ NoParse
    /\ NoComplete
    /\ NoList
    /\ NoDisplay
    /\ NoSticky
    /\ NoTrace
    /\ NoReuse
    /\ NoDebug
    /\ bdb_stack = <<>>
    /\ bdb_idx = 0
    /\ enable_hidden_frames = TRUE
    /\ _via_set_trace_frame = 0
    /\ show_hidden_frames = FALSE
    /\ fullstack = <<>>
    /\ stack = <<>>
    /\ _hidden_frames = <<>>
    /\ curindex = 0
    /\ curframe = 0
    /\ pc = "running"

NextReuse ==
    \/ \E a \in ReuseArgs : Call(a)
    \/ InitReturn
    \/ GLOBAL_PDB # None /\ \E frame \in TraceFrames : set_trace(frame, FALSE)
    \/ do_step
    \/ \E s \in Streams : set_sys_stdout(s)
    \/ \E s \in Streams : open_stream(s)

SpecReuse == InitReuse /\ [][NextReuse]_vars

\* the stream of a request: its stdout keyword, or sys.stdout without one
SuppliedStream(out) == IF out = "absent" THEN sys_stdout ELSE out

ENTERING == "ENTERING RECURSIVE DEBUGGER"
LEAVING == "LEAVING RECURSIVE DEBUGGER"

\* Lines 1470-1478: the session PdbppWithConfig.__init__ leaves in the global
\* slot, for a command given to a session of class C.
NestedSession(C) ==
    [Session("PdbppWithConfig") EXCEPT !._use_global_pdb_for_class = C]

\* Lines 259-267 for p = PdbppWithConfig(...), which gives no keyword:
\* the global session is returned in place of a nested one.  via_set_trace:
\* called_for_set_trace finds a frame above do_debug.
nested_reuses_global(via_set_trace) ==
    /\ use_global_pdb_default
    /\ GLOBAL_PDB # None
    /\ via_set_trace
    /\ \/ GLOBAL_PDB._force_use_as_global_pdb
       \/ use_global_pdb_for_class(GLOBAL_PDB, "PdbppWithConfig")

\* Lines 1480-1481, p = PdbppWithConfig(...) through PdbMeta.__call__: with
\* the guard set a plain debugger is built (lines 222-242) and with the
\* global session returned nothing is built; otherwise __init__ puts the
\* nested session in the global slot (line 1477), and lines 295-297 record
\* HOME when the request resolves set_global_pdb true.
construct_nested(C, via_set_trace) ==
    IF in_init \/ nested_reuses_global(via_set_trace) THEN GLOBAL_PDB
    ELSE IF use_global_pdb_default
    THEN [NestedSession(C) EXCEPT !._env = HOME]
    ELSE NestedSession(C)

DebugFrame ==
    UNCHANGED <<HOME, REUSE, callstack, lastCall, stackVars, parseVars,
                completeVars, listVars, displayVars, disabled, start_filename,
                start_lineno, _stopped_for_set_trace, py314, called, sticky,
                commands_defining, _sticky_need_cls, rendered, has_return,
                sys_stdout, open_streams, botframe, stepped>>

\* Lines 1463-1488: do_debug up to sys.call_tracing(p.run, ...).  When
\* __init__ of the nested session raises, the command ends there, with the
\* guard of PdbMeta.__call__ left set.
debug_enter(C, via_set_trace, init_raises) ==
    /\ Len(debug_stack) < MaxDebug
    /\ callstack = <<>>
    /\ tracing' = FALSE
    /\ IF ~in_init /\ nested_reuses_global(via_set_trace)
       THEN /\ _sticky_skip_cls' = IF botframe THEN (sticky \/ _sticky_skip_cls)
                                   ELSE _sticky_skip_cls
            /\ _set_trace_use_next' = (botframe \/ _set_trace_use_next)
            /\ stdout' = ensure_file_can_write_unicode(sys_stdout)
       ELSE UNCHANGED <<_sticky_skip_cls, _set_trace_use_next, stdout>>
    /\ IF init_raises /\ ~in_init /\ ~nested_reuses_global(via_set_trace)
       THEN /\ in_init' = TRUE
            /\ debugged' = "raised"
            /\ UNCHANGED <<GLOBAL_PDB, debug_stack, _sticky_messages, shown_messages>>
       ELSE /\ GLOBAL_PDB' = construct_nested(C, via_set_trace)
            /\ in_init' = FALSE
            /\ debug_stack' = Append(debug_stack,
                                     [prev_pdb |-> GLOBAL_PDB, orig_trace |-> tracing])
            /\ shown_messages' = IF sticky THEN Append(_sticky_messages, ENTERING)
                                 ELSE <<ENTERING>> \o _sticky_messages
            /\ _sticky_messages' = <<>>
            /\ debugged' = "entered"
    /\ DebugFrame

\* variant: the slot is restored only when the nested run returns
debug_exit_unless_raised(raised) ==
    LET top == debug_stack[Len(debug_stack)]
    IN  /\ debug_stack # <<>>
        /\ callstack = <<>>
        /\ debug_stack' = SubSeq(debug_stack, 1, Len(debug_stack) - 1)
        /\ IF raised
           THEN /\ debugged' = "raised"
                /\ shown_messages' = <<>>
                /\ UNCHANGED <<GLOBAL_PDB, tracing, _sticky_messages>>
           ELSE /\ GLOBAL_PDB' = top.prev_pdb
                /\ debugged' = "returned"
                /\ tracing' = top.orig_trace
                /\ IF sticky
                   THEN /\ _sticky_messages' = Append(_sticky_messages, LEAVING)
                        /\ shown_messages' = <<>>
                   ELSE /\ shown_messages' = <<LEAVING>>
                        /\ UNCHANGED _sticky_messages
        /\ UNCHANGED <<in_init, _sticky_skip_cls, _set_trace_use_next, stdout>>
        /\ DebugFrame

\* Lines 1489-1498: p.run has returned, or has raised an Exception, which is
\* reported (raised is false), or has raised another BaseException, which
\* leaves do_debug after the finally clause (raised is true).
debug_exit(raised) ==
    LET top == debug_stack[Len(debug_stack)]
    IN  /\ debug_stack # <<>>
        /\ callstack = <<>>
        /\ GLOBAL_PDB' = top.prev_pdb
        /\ debug_stack' = SubSeq(debug_stack, 1, Len(debug_stack) - 1)
        /\ IF raised
           THEN /\ debugged' = "raised"
                /\ shown_messages' = <<>>
                /\ UNCHANGED <<tracing, _sticky_messages>>
           ELSE /\ debugged' = "returned"
                /\ tracing' = top.orig_trace
                /\ IF sticky
                   THEN /\ _sticky_messages' = Append(_sticky_messages, LEAVING)
                        /\ shown_messages' = <<>>
                   ELSE /\ shown_messages' = <<LEAVING>>
                        /\ UNCHANGED _sticky_messages
        /\ UNCHANGED <<in_init, _sticky_skip_cls, _set_trace_use_next, stdout>>
        /\ DebugFrame

\* A session at its prompt: the global one, inside interaction(), or one
\* that was kept out of the global slot, which is empty or holds another
\* session.
InitDebug ==
    /\ GLOBAL_PDB \in {None,
                       [Session("Pdb") EXCEPT !._env = "/home/a"],
                       [Session("Pdb") EXCEPT !._env = "/home/a",
                                              !._in_interaction = TRUE]}
    /\ in_init = FALSE
    /\ HOME = "/home/a"
    /\ REUSE = "1"
    /\ callstack = <<>>
    /\ lastCall = Observed("none", FALSE, FALSE, FALSE, "absent")
    /\ NoStack

NextDebug ==
    \/ \E C \in Classes, via_set_trace \in BOOLEAN, init_raises \in BOOLEAN :
          debug_enter(C, via_set_trace, init_raises)
    \/ \E raised \in BOOLEAN : debug_exit(raised)
    \/ debug_stack # <<>> /\ \E a \in ReuseArgs : Call(a)
    \/ InitReturn
    \/ debug_stack # <<>> /\ EnterInteraction
    \/ debug_stack # <<>> /\ ExitInteraction
    \/ debug_stack # <<>> /\ cleanup

SpecDebug == InitDebug /\ [][NextDebug]_vars

\* the slot holds a session that do_debug made
NestedIsGlobal == GLOBAL_PDB # None /\ GLOBAL_PDB.cls = "PdbppWithConfig"

\* C38: when a debug command ends, by return or by exception, the global
\* slot holds what it held when the command started (prev_pdb for a command
\* that reached the nested run); a command that ends before the nested run
\* leaves the slot alone.  With no debug command in progress the slot holds
\* no nested session.
C38_SlotRestored ==
    [][/\ Len(debug_stack') < Len(debug_stack) =>
            GLOBAL_PDB' = debug_stack[Len(debug_stack)].prev_pdb
       /\ (in_init' /\ ~in_init /\ callstack' = <<>>) =>
            (debugged' = "raised" /\ GLOBAL_PDB' = GLOBAL_PDB)
       /\ debug_stack' = <<>> => ~NestedIsGlobal']_vars

\* a nested run that emptied the global slot (cleanup) has ended by an
\* exception, and the slot holds the outer session again
C38_Witness ==
    /\ debugged = "raised"
    /\ debug_stack = <<>>
    /\ GLOBAL_PDB # None
    /\ GLOBAL_PDB.cls = "Pdb"
    /\ GLOBAL_PDB._in_interaction
    /\ ~lastCall.is_global
    /\ lastCall.ret = "new"

\* C39: after each of the navigation commands up, down, frame, top, bottom,
\* hf_hide and hf_unhide, given at the prompt with any argument, the current
\* index lies within the visible stack and the current frame is the frame
\* of the stack at that index.
C39_SelectionInStack ==
    [][pc = "prompt" =>
          /\ 0 <= curindex'
          /\ curindex' < Len(stack')
          /\ curframe' = stack'[curindex' + 1].id]_vars

====
